---- MODULE Spec2Model ----
(***************************************************************************)
(* Model of the request executor of the Rencom Python SDK                  *)
(* (rencom/_http.py, class HTTPClient) and of the exception taxonomy it    *)
(* raises (rencom/exceptions.py).                                          *)
(*                                                                         *)
(* Time is in milliseconds.  Strings such as message texts are modelled    *)
(* by the name of the place they come from ("detail", "text", ...).        *)
(***************************************************************************)
EXTENDS Integers, Sequences, FiniteSets, TLC

\* ------------------------------------------------------------------------
\* Bounds of the model
\* ------------------------------------------------------------------------
MaxRetriesBound == 2
MaxRetryAfter == 2
JitterSteps == 1
MaxBackoffAttempt == 8
BackoffJitterSteps == 5
MaxPages == 3
MaxPageItems == 2
MaxLoops == 3
MaxRuns == 2

\* ------------------------------------------------------------------------
\* Program constants
\* ------------------------------------------------------------------------
DefaultRetryAfter == 60
BaseDelayMs == 1000
MaxDelayMs == 60000
JitterPermille == 250

\* ------------------------------------------------------------------------
\* Optional integers (Python: int | None)
\* ------------------------------------------------------------------------
NoneV == [some |-> FALSE, val |-> 0]
Some(n) == [some |-> TRUE, val |-> n]

\* Python truthiness of an int | None value: None and 0 are falsy.
Truthy(opt) == opt.some /\ opt.val # 0

\* ------------------------------------------------------------------------
\* Response header values: absent, the empty string, the decimal text of an
\* integer, or a text that int() rejects (e.g. an HTTP-date).
\* ------------------------------------------------------------------------
Absent == [tag |-> "absent", val |-> 0]
EmptyText == [tag |-> "empty", val |-> 0]
Malformed == [tag |-> "bad", val |-> 0]
IntText(n) == [tag |-> "int", val |-> n]

\* response.headers.get(name, default)
HeaderGetDefault(h, default) == IF h.tag = "absent" THEN IntText(default) ELSE h

\* Python int(text): ok = FALSE stands for ValueError.
ParseInt(h) == IF h.tag = "int" THEN [ok |-> TRUE, val |-> h.val]
               ELSE [ok |-> FALSE, val |-> 0]

\* `int(x) if x else None` for a header value x = headers.get(name):
\* an absent header (None) and an empty text are falsy.
ParseOptional(h) ==
    IF h.tag \in {"absent", "empty"} THEN [ok |-> TRUE, opt |-> NoneV]
    ELSE IF ParseInt(h).ok THEN [ok |-> TRUE, opt |-> Some(ParseInt(h).val)]
    ELSE [ok |-> FALSE, opt |-> NoneV]

\* ------------------------------------------------------------------------
\* Exception classes
\* ------------------------------------------------------------------------
Parent(c) ==
    CASE c = "AuthenticationError" -> "RencomError"
      [] c = "AuthorizationError" -> "RencomError"
      [] c = "NotFoundError" -> "RencomError"
      [] c = "ValidationError" -> "RencomError"
      [] c = "RateLimitError" -> "RencomError"
      [] c = "ServerError" -> "RencomError"
      [] c = "ServiceUnavailableError" -> "ServerError"
      [] c = "NetworkError" -> "RencomError"
      [] c = "TimeoutError" -> "NetworkError"
      [] c = "JSONDecodeError" -> "ValueError"
      [] c = "CancelledError" -> "BaseException"
      [] c = "Exception" -> "BaseException"
      [] c = "BaseException" -> "BaseException"
      [] OTHER -> "Exception"

RECURSIVE IsInstance(_, _)
IsInstance(c, cls) ==
    IF c = cls THEN TRUE
    ELSE IF c = "BaseException" THEN FALSE
    ELSE IsInstance(Parent(c), cls)

\* An exception object; fields a class does not have are None / "none".
\* `response` is the status of the attached response, None when no response
\* is attached.
Exc(type, message, response) ==
    [type |-> type, message |-> message, response |-> response,
     errors |-> "none", retry_after |-> NoneV, limit |-> NoneV,
     remaining |-> NoneV, reset_at |-> NoneV]

NoExc == Exc("None", "", NoneV)

\* Mutant: self.errors = errors
ValidationError_KeepsNone(message, errors, response) ==
    [Exc("ValidationError", message, response) EXCEPT !.errors = errors]

\* ValidationError.__init__: self.errors = errors or []
ValidationError(message, errors, response) ==
    [Exc("ValidationError", message, response) EXCEPT
        !.errors = IF errors = "list" THEN "list" ELSE "empty_list"]

RateLimitError(message, retry_after, limit, remaining, reset_at, response) ==
    [Exc("RateLimitError", message, response) EXCEPT
        !.retry_after = retry_after, !.limit = limit,
        !.remaining = remaining, !.reset_at = reset_at]

\* ------------------------------------------------------------------------
\* Transport outcomes
\* ------------------------------------------------------------------------
\* Response bodies, by shape:
\*   obj_detail_errors  JSON object with "detail" and an "errors" list
\*   obj_detail         JSON object with "detail", no "errors"
\*   obj_plain          JSON object with neither
\*   json_other         JSON value that is not an object (list, string, ...)
\*   text               non-empty text that is not JSON
\*   empty              empty body
Bodies == {"obj_detail_errors", "obj_detail", "obj_plain", "json_other",
           "text", "empty"}

\* response.json() succeeds
JsonDecodes(body) == body \notin {"text", "empty"}

Statuses == {200, 400, 401, 403, 404, 418, 429, 500, 503}

Response(status, body, retry_after, limit, remaining, reset) ==
    [t |-> "response", status |-> status, body |-> body,
     retry_after |-> retry_after, limit |-> limit, remaining |-> remaining,
     reset |-> reset]

\* httpx.TimeoutException / httpx.NetworkError raised by the transport
TransportTimeout == [Response(0, "empty", Absent, Absent, Absent, Absent)
                        EXCEPT !.t = "timeout"]
TransportNetwork == [Response(0, "empty", Absent, Absent, Absent, Absent)
                        EXCEPT !.t = "network"]
NoOutcome == [Response(0, "empty", Absent, Absent, Absent, Absent)
                        EXCEPT !.t = "none"]

\* asyncio.CancelledError thrown into the pending transport await
TransportCancelled == [Response(0, "empty", Absent, Absent, Absent, Absent)
                        EXCEPT !.t = "cancelled"]

StatusText(status) ==
    CASE status = 400 -> "400" [] status = 401 -> "401"
      [] status = 403 -> "403" [] status = 404 -> "404"
      [] status = 418 -> "418" [] status = 429 -> "429"
      [] status = 500 -> "500"
      [] status = 503 -> "503" [] OTHER -> "nnn"

\* The message and errors extracted from an error response
\* (the try/except at the top of _handle_error_response).
ErrorMessage(resp) ==
    IF resp.body \in {"obj_detail_errors", "obj_detail"} THEN "detail"
    ELSE IF resp.body = "empty" THEN "HTTP " \o StatusText(resp.status)
    ELSE "text"

ErrorErrors(resp) ==
    IF resp.body = "obj_detail_errors" THEN "list" ELSE "none"

\* The class raised for a status >= 400 (the if/elif chain).
StatusToError(status) ==
    IF status = 400 THEN "ValidationError"
    ELSE IF status = 401 THEN "AuthenticationError"
    ELSE IF status = 403 THEN "AuthorizationError"
    ELSE IF status = 404 THEN "NotFoundError"
    ELSE IF status = 429 THEN "RateLimitError"
    ELSE IF status = 503 THEN "ServiceUnavailableError"
    ELSE IF status >= 500 THEN "ServerError"
    ELSE "RencomError"

\* _handle_error_response: the exception it raises for a response.
HandleErrorResponse(resp) ==
    LET status == resp.status
        message == ErrorMessage(resp)
        errors == ErrorErrors(resp)
        cls == StatusToError(status)
    IN  IF cls = "ValidationError"
        THEN ValidationError(message, errors, Some(status))
        ELSE IF cls = "RateLimitError"
        THEN LET retry_after ==
                     ParseInt(HeaderGetDefault(resp.retry_after,
                                               DefaultRetryAfter))
                 limit == ParseOptional(resp.limit)
                 remaining == ParseOptional(resp.remaining)
                 reset_at == ParseOptional(resp.reset)
             IN  IF retry_after.ok /\ limit.ok /\ remaining.ok /\ reset_at.ok
                 THEN RateLimitError(message, Some(retry_after.val),
                                     limit.opt, remaining.opt, reset_at.opt,
                                     Some(status))
                 ELSE Exc("ValueError", "invalid literal for int()", NoneV)
        ELSE IF cls = "RencomError"
        THEN Exc(cls, "HTTP " \o StatusText(status) \o ": " \o message,
                 Some(status))
        ELSE Exc(cls, message, Some(status))

\* ------------------------------------------------------------------------
\* Backoff
\* ------------------------------------------------------------------------
RECURSIVE Pow2(_)
Pow2(n) == IF n <= 0 THEN 1 ELSE 2 * Pow2(n - 1)

Min(a, b) == IF a < b THEN a ELSE b
Max(a, b) == IF a > b THEN a ELSE b

\* Samples of random.uniform(-0.25, 0.25), in thousandths.
JitterSamples ==
    {(JitterPermille * k) \div JitterSteps : k \in (-JitterSteps)..JitterSteps}

\* Mutant: the delay is not capped.
NominalDelay_NoCap(k) == BaseDelayMs * Pow2(k)

\* delay = min(base_delay * 2**attempt, max_delay), before jitter
NominalDelay(k) == Min(BaseDelayMs * Pow2(k), MaxDelayMs)

\* _wait_with_backoff(attempt): the argument given to asyncio.sleep, for
\* the jitter sample r.
BackoffDelay(k, r) ==
    LET delay == NominalDelay(k)
        jitter == (r * delay) \div 1000
    IN  Max(0, delay + jitter)

\* A pending asyncio.sleep: where its duration came from, the duration and
\* the attempt it follows.
NoWait == [src |-> "none", ms |-> 0, k |-> 0]
BackoffWait(k, r) == [src |-> "backoff", ms |-> BackoffDelay(k, r), k |-> k]
RetryAfterWait(k, seconds) ==
    [src |-> "retry_after", ms |-> seconds * 1000, k |-> k]

\* ------------------------------------------------------------------------
\* Credentials and request headers
\* ------------------------------------------------------------------------
\* A str | None value: PyNone stands for None, any other string for itself.
PyNone == "<None>"

\* Python truthiness of a str | None value: None and "" are falsy.
TruthyStr(v) == v # PyNone /\ v # ""

\* Header maps (dict[str, str]) are functions from header names to values.
EmptyMap == [n \in {} |-> ""]

\* d[k] = v
Put(d, k, v) == [n \in DOMAIN d \cup {k} |-> IF n = k THEN v ELSE d[n]]

\* d.update(e)
Update(d, e) ==
    [n \in DOMAIN d \cup DOMAIN e |-> IF n \in DOMAIN e THEN e[n] ELSE d[n]]

\* The extra_headers argument: None or a dict.
NoExtras == [none |-> TRUE, map |-> EmptyMap]
Extras(m) == [none |-> FALSE, map |-> m]

\* Mutant: the extra headers are merged first, so the built values win.
BuildHeaders_DefaultsWin(admin_key_, jwt_token_, api_key_, extra) ==
    LET headers == Put(EmptyMap, "Content-Type", "application/json")
        auth == IF TruthyStr(admin_key_)
                THEN Put(headers, "X-Admin-Key", admin_key_)
                ELSE IF TruthyStr(jwt_token_)
                THEN Put(headers, "Authorization", "Bearer " \o jwt_token_)
                ELSE IF TruthyStr(api_key_)
                THEN Put(headers, "X-API-Key", api_key_)
                ELSE headers
    IN  IF ~extra.none /\ DOMAIN extra.map # {}
        THEN Update(extra.map, auth) ELSE auth

\* Mutant: the credentials are tested independently (if / if / if).
BuildHeaders_AllCredentials(admin_key_, jwt_token_, api_key_, extra) ==
    LET h0 == Put(EmptyMap, "Content-Type", "application/json")
        h1 == IF TruthyStr(admin_key_)
              THEN Put(h0, "X-Admin-Key", admin_key_) ELSE h0
        h2 == IF TruthyStr(jwt_token_)
              THEN Put(h1, "Authorization", "Bearer " \o jwt_token_) ELSE h1
        h3 == IF TruthyStr(api_key_)
              THEN Put(h2, "X-API-Key", api_key_) ELSE h2
    IN  IF ~extra.none /\ DOMAIN extra.map # {}
        THEN Update(h3, extra.map) ELSE h3

\* Mutant: no Content-Type header is set.
BuildHeaders_NoContentType(admin_key_, jwt_token_, api_key_, extra) ==
    LET auth == IF TruthyStr(admin_key_)
                THEN Put(EmptyMap, "X-Admin-Key", admin_key_)
                ELSE IF TruthyStr(jwt_token_)
                THEN Put(EmptyMap, "Authorization", "Bearer " \o jwt_token_)
                ELSE IF TruthyStr(api_key_)
                THEN Put(EmptyMap, "X-API-Key", api_key_)
                ELSE EmptyMap
    IN  IF ~extra.none /\ DOMAIN extra.map # {}
        THEN Update(auth, extra.map) ELSE auth

\* _build_headers(extra_headers) of a client holding the three credentials
BuildHeaders(admin_key_, jwt_token_, api_key_, extra) ==
    LET headers == Put(EmptyMap, "Content-Type", "application/json")
        auth == IF TruthyStr(admin_key_)
                THEN Put(headers, "X-Admin-Key", admin_key_)
                ELSE IF TruthyStr(jwt_token_)
                THEN Put(headers, "Authorization", "Bearer " \o jwt_token_)
                ELSE IF TruthyStr(api_key_)
                THEN Put(headers, "X-API-Key", api_key_)
                ELSE headers
    IN  IF ~extra.none /\ DOMAIN extra.map # {}
        THEN Update(auth, extra.map) ELSE auth

\* How the client was constructed: HTTPClient(...) directly, or
\* AsyncRencomClient(api_key, jwt_token) with the environment value of
\* RENCOM_API_KEY (PyNone when unset).
DirectCtor(api, jwt, admin) ==
    [via |-> "HTTPClient", api_key |-> api, jwt_token |-> jwt,
     admin_key |-> admin, env |-> PyNone]
AsyncCtor(api, jwt, env) ==
    [via |-> "AsyncRencomClient", api_key |-> api, jwt_token |-> jwt,
     admin_key |-> PyNone, env |-> env]

\* Mutant: the environment value is used whenever api_key is not given.
ResolvedApiKey_EnvWithoutApiKey(c) ==
    IF c.via = "AsyncRencomClient" /\ c.api_key = PyNone
    THEN c.env ELSE c.api_key

\* AsyncRencomClient.__init__: api_key read from the environment when
\* neither credential is given.
ResolvedApiKey(c) ==
    IF c.via = "AsyncRencomClient" /\ c.api_key = PyNone
       /\ c.jwt_token = PyNone
    THEN c.env ELSE c.api_key

\* AsyncRencomClient.__init__ raises ValueError
CtorRaises(c) ==
    /\ c.via = "AsyncRencomClient"
    /\ ResolvedApiKey(c) = PyNone
    /\ c.jwt_token = PyNone

\* ------------------------------------------------------------------------
\* State
\* ------------------------------------------------------------------------
VARIABLES
    ctor,                    \* how the client was constructed
    api_key,                 \* self.api_key
    jwt_token,               \* self.jwt_token
    admin_key,               \* self.admin_key
    config,                  \* the arguments HTTPClient was constructed with
    max_retries,             \* self.max_retries
    auto_retry_rate_limits,  \* self.auto_retry_rate_limits
    endpoint,                \* the base_url and timeout arguments of HTTPClient
    base_url,                \* self.base_url
    timeout,                 \* the timeout of self.client, in seconds
    pc,                      \* "failed", "idle", "send", "wait", "done"
    extra_headers,           \* the headers argument of request()
    request_headers,         \* the local request_headers of request()
    sent_headers,            \* headers of each attempt of this request
    args,                    \* method, path, params and json of this request
    sent,                    \* what each attempt handed to the transport
    attempt,                 \* the loop variable of request()
    last_exception,          \* the local last_exception of request()
    response,                \* outcome of the latest transport attempt
    log,                     \* outcome of each attempt of this request, and
                             \* the wait that followed it ("none": no wait)
    attempts,                \* transport attempts made by this request
    nwaits,                  \* sleeps started by this request
    wait,                    \* the sleep in progress, NoWait if none
    result,                  \* what request() returned or raised
    cancelled,               \* where the task was cancelled, and the counts then
    earlier,                 \* how the request before this one ended
    current_call,            \* which of two concurrent calls holds the loop
    parked,                  \* the frame of the call suspended at its await
    bo_attempt,              \* _wait_with_backoff: the attempt argument
    bo_delay,                \* its local delay before jitter is added, in ms
    bo_prev,                 \* that delay in the call for attempt - 1
    bo_sleep,                \* the argument of asyncio.sleep, in ms
    it_pages,                \* search_iter: the pages the server holds
    it_limit,                \* its limit argument
    it_pc,                   \* "start", "fetching", "yielded", "finished",
                             \* "closed"
    it_offset,               \* its local offset
    it_idx,                  \* position in the page of the item last yielded
    it_calls,                \* the arguments of each search() call it made
    it_yielded,              \* the items it yielded
    it_asks,                 \* items the consumer has asked for
    it_run,                  \* search_iter calls made so far
    it_failed,               \* the search() call that raised, and its error
    it_raised,               \* the error the generator raised to its consumer
    it_given,                \* items the sync iterator handed out
    pm_client,               \* search(): "products" or "merchants"
    pm_args,                 \* the arguments the caller passed
    pm_pc,                   \* "called", "sent"
    pm_params,               \* the params map handed to HTTPClient.get
    fc_kind,                 \* the facade: "RencomClient" or "SyncX402Client"
    fc_loop,                 \* its self._loop: a loop id, 0 for None
    fc_made,                 \* event loops created so far (ids 1..fc_made)
    fc_closed,               \* the loops that are closed
    fc_current,              \* the thread's current event loop, 0 if unset
    fc_running,              \* the loop running in the thread, 0 if none
    fc_http,                 \* the HTTP client: "open" or "closed"
    fc_call,                 \* what the latest facade method call did
    fc_close,                \* how the latest close() ended
    fc_active,               \* the run_until_complete() in progress
    rl_headers,              \* headers given to the latest parse
    rl_prev,                 \* headers given to the parse before it
    rl_info                  \* what the latest parse returned or raised

clientVars == <<ctor, api_key, jwt_token, admin_key, config, max_retries,
                auto_retry_rate_limits, endpoint, base_url, timeout>>

requestVars == <<clientVars, pc, extra_headers, request_headers,
                 sent_headers, args, sent, attempt, last_exception,
                 response, log,
                 attempts, nwaits, wait, result, cancelled, earlier,
                 current_call, parked>>

backoffVars == <<bo_attempt, bo_delay, bo_prev, bo_sleep>>

iterVars == <<it_pages, it_limit, it_pc, it_offset, it_idx, it_calls,
              it_yielded, it_asks, it_run, it_failed, it_raised, it_given>>

paramVars == <<pm_client, pm_args, pm_pc, pm_params>>

facadeVars == <<fc_kind, fc_loop, fc_made, fc_closed, fc_current,
                fc_running, fc_http, fc_call, fc_close, fc_active>>

snapshotVars == <<rl_headers, rl_prev, rl_info>>

vars == <<requestVars, backoffVars, iterVars, paramVars, facadeVars,
          snapshotVars>>

\* The variables each part of the model leaves alone
notRequest == <<backoffVars, iterVars, paramVars, facadeVars, snapshotVars>>
notBackoff == <<requestVars, iterVars, paramVars, facadeVars, snapshotVars>>
notIter == <<requestVars, backoffVars, paramVars, facadeVars, snapshotVars>>
notParams == <<requestVars, backoffVars, iterVars, facadeVars, snapshotVars>>
notFacade == <<requestVars, backoffVars, iterVars, paramVars, snapshotVars>>
notSnapshot == <<requestVars, backoffVars, iterVars, paramVars, facadeVars>>

NoResult == [kind |-> "none", value |-> "", exc |-> NoExc]
Returned(v) == [kind |-> "value", value |-> v, exc |-> NoExc]
Raised(e) == [kind |-> "error", value |-> "", exc |-> e]

\* Header values a server may send
HeaderValues ==
    {Absent, EmptyText, Malformed} \cup {IntText(n) : n \in 0..MaxRetryAfter}

\* X-RateLimit-Limit-Minute / -Remaining-Minute / -Reset as sent together
RateLimitHeaders ==
    { <<Absent, Absent, Absent>>,
      <<IntText(MaxRetryAfter), IntText(0), Absent>>,
      <<Absent, EmptyText, IntText(1)>>,
      <<Malformed, Absent, Absent>> }

\* The outcomes the transport may produce for one attempt: the two
\* transport failures, every status with every body shape, and 429 responses
\* with every Retry-After value and rate-limit header combination.
TransportOutcomes ==
    {TransportTimeout, TransportNetwork}
    \cup {Response(s, b, Absent, Absent, Absent, Absent) :
              s \in Statuses, b \in Bodies}
    \cup {Response(429, "obj_detail", h, rl[1], rl[2], rl[3]) :
              h \in HeaderValues, rl \in RateLimitHeaders}

Configs ==
    [max_retries : (-1)..MaxRetriesBound, auto_retry_rate_limits : BOOLEAN]

\* Mutant: the constructor stores the number of attempts, not of retries.
StoredMaxRetries_AsAttempts(m) == m + 1

\* HTTPClient.__init__: self.max_retries = max_retries
StoredMaxRetries(m) == m

NotCancelled == [at |-> "none", attempts |-> 0, nwaits |-> 0]

\* Credential values a caller may pass: None, the empty string, a value.
ApiKeys == {PyNone, "", "ak"}
JwtTokens == {PyNone, "", "jt"}
AdminKeys == {PyNone, "", "ad"}
EnvValues == {PyNone, "", "ek"}

Ctors ==
    {DirectCtor(a, j, d) : a \in ApiKeys, j \in JwtTokens, d \in AdminKeys}
    \cup {AsyncCtor(a, j, e) : a \in ApiKeys, j \in JwtTokens, e \in EnvValues}

\* The headers argument a caller may pass to request()
ExtraChoices ==
    { NoExtras,
      Extras(EmptyMap),
      Extras(Put(EmptyMap, "X-Request-ID", "r1")),
      Extras(Put(EmptyMap, "Content-Type", "text/plain")),
      Extras(Put(EmptyMap, "X-API-Key", "other")),
      Extras(Put(EmptyMap, "Authorization", "Bearer other")) }

\* No request was made on the client before the current one.
NoEarlier == [kind |-> "none", attempts |-> 0, nwaits |-> 0]

\* The arguments of request() other than headers; PyNone for an argument
\* left out.
Args(method, path, params, json) ==
    [method |-> method, path |-> path, params |-> params, json |-> json]

NoArgs == Args("none", "none", PyNone, PyNone)

\* request() as get("/health") calls it
DefaultArgs == Args("GET", "/health", PyNone, PyNone)

\* request() as get, post and delete call it
ArgChoices ==
    { DefaultArgs,
      Args("GET", "/x402/v1/search", "q=a&limit=2", PyNone),
      Args("POST", "/api/v1/tokens", PyNone, "{name: t}"),
      Args("DELETE", "/api/v1/tokens/1", PyNone, PyNone) }

\* The frame of a coroutine that has not called request() yet
NoFrame ==
    [pc |-> "idle", extra_headers |-> NoExtras, request_headers |-> EmptyMap,
     sent_headers |-> <<>>, args |-> NoArgs, sent |-> <<>>,
     attempt |-> 0, last_exception |-> NoExc,
     response |-> NoOutcome, log |-> <<>>, attempts |-> 0, nwaits |-> 0,
     wait |-> NoWait, result |-> NoResult, cancelled |-> NotCancelled]

\* A URL: its text up to the trailing slashes, and how many slashes follow.
Url(stem, slashes) == [stem |-> stem, slashes |-> slashes]

\* str.rstrip("/")
RStripSlash(u) == [u EXCEPT !.slashes = 0]

\* The base_url and timeout arguments of the constructor, and their defaults
Endpoint(url, seconds) == [base_url |-> url, timeout |-> seconds]

DefaultEndpoint == Endpoint(Url("https://api.rencom.ai", 0), 30)

Endpoints ==
    {DefaultEndpoint, Endpoint(Url("http://localhost:8000", 2), 5)}

\* The state after the constructor named by c ran with the retry
\* arguments cfg and the endpoint arguments ep: the fields are set, or the
\* constructor raised.
InitClientAt(c, cfg, ep) ==
    /\ ctor = c
    /\ api_key = ResolvedApiKey(c)
    /\ jwt_token = c.jwt_token
    /\ admin_key = c.admin_key
    /\ config = cfg
    /\ max_retries = StoredMaxRetries(cfg.max_retries)
    /\ auto_retry_rate_limits = cfg.auto_retry_rate_limits
    /\ endpoint = ep
    /\ base_url = RStripSlash(ep.base_url)
    /\ timeout = ep.timeout
    /\ pc = IF CtorRaises(c) THEN "failed" ELSE "idle"
    /\ extra_headers = NoExtras
    /\ request_headers = EmptyMap
    /\ sent_headers = <<>>
    /\ args = NoArgs
    /\ sent = <<>>
    /\ attempt = 0
    /\ last_exception = NoExc
    /\ response = NoOutcome
    /\ log = <<>>
    /\ attempts = 0
    /\ nwaits = 0
    /\ wait = NoWait
    /\ result = NoResult
    /\ cancelled = NotCancelled
    /\ earlier = NoEarlier
    /\ current_call = 1
    /\ parked = NoFrame

\* The constructor called without base_url and timeout
InitClient(c, cfg) == InitClientAt(c, cfg, DefaultEndpoint)

\* One retry configuration: a single retry, 429 not retried
HeadersConfig == [max_retries |-> 1, auto_retry_rate_limits |-> FALSE]

\* No call of _wait_with_backoff is being examined
NotCalled == -1

BackoffIdle ==
    /\ bo_attempt = 0
    /\ bo_delay = NotCalled
    /\ bo_prev = NotCalled
    /\ bo_sleep = NotCalled

\* A page of a search response: its items and its has_more flag
Page(items, more) == [items |-> items, has_more |-> more]

\* No search() call of the generator has raised
NoFailure == [call |-> 0, error |-> "none"]

\* No search_iter generator exists
IterIdle ==
    /\ it_pages = <<>>
    /\ it_limit = 1
    /\ it_pc = "closed"
    /\ it_offset = 0
    /\ it_idx = 0
    /\ it_calls = <<>>
    /\ it_yielded = <<>>
    /\ it_asks = 0
    /\ it_run = 0
    /\ it_failed = NoFailure
    /\ it_raised = "none"
    /\ it_given = <<>>

\* No search() call is being examined
ParamsIdle ==
    /\ pm_client = "none"
    /\ pm_args = EmptyMap
    /\ pm_pc = "sent"
    /\ pm_params = EmptyMap

\* No facade method was called yet
NoCall ==
    [path |-> "none", reentrant |-> FALSE, outcome |-> "none",
     requested |-> FALSE, created |-> 0, installed |-> FALSE]

\* No facade method is inside run_until_complete()
NoActive == [op |-> "none", path |-> "none", stage |-> "none",
             rerun |-> FALSE, http |-> "none"]

\* No synchronous facade exists
FacadeIdle ==
    /\ fc_kind = "none"
    /\ fc_loop = 0
    /\ fc_made = 0
    /\ fc_closed = {}
    /\ fc_current = 0
    /\ fc_running = 0
    /\ fc_http = "open"
    /\ fc_call = NoCall
    /\ fc_close = "none"
    /\ fc_active = NoActive

\* The headers of the rate-limit snapshot and the field each one fills,
\* in the order _parse_rate_limit_headers looks at them
RateLimitFields ==
    << [header |-> "X-RateLimit-Limit-Minute", field |-> "limit_minute"],
       [header |-> "X-RateLimit-Remaining-Minute",
        field |-> "remaining_minute"],
       [header |-> "X-RateLimit-Limit-Daily", field |-> "limit_daily"],
       [header |-> "X-RateLimit-Remaining-Daily",
        field |-> "remaining_daily"],
       [header |-> "X-RateLimit-Reset", field |-> "reset_at"] >>

RateLimitHeaderNames == {RateLimitFields[i].header : i \in 1..5}

\* A headers dict with none of the rate-limit headers
NoRateLimitHeaders == [n \in RateLimitHeaderNames |-> Absent]

\* info: dict[str, Any] = {}
EmptyInfo == [f \in {} |-> 0]

\* _parse_rate_limit_headers was not called
NotParsed == [state |-> "none", info |-> EmptyInfo]

SnapshotIdle ==
    /\ rl_headers = NoRateLimitHeaders
    /\ rl_prev = NoRateLimitHeaders
    /\ rl_info = NotParsed

RequestIdle == InitClient(DirectCtor("ak", PyNone, PyNone), HeadersConfig)

\* A client holding an API key, with every retry configuration
Init ==
    /\ \E cfg \in Configs :
           InitClient(DirectCtor("ak", PyNone, PyNone), cfg)
    /\ BackoffIdle
    /\ IterIdle
    /\ ParamsIdle
    /\ FacadeIdle
    /\ SnapshotIdle

\* ------------------------------------------------------------------------
\* request()
\* ------------------------------------------------------------------------
\* Mutant: a retry budget kept on the client is spent by each step.
ClientUnchanged_SpendsRetry ==
    /\ max_retries' = max_retries - 1
    /\ UNCHANGED <<ctor, api_key, jwt_token, admin_key, config,
                   auto_retry_rate_limits, endpoint, base_url, timeout>>

\* request() and the methods it calls read self.api_key, self.jwt_token,
\* self.admin_key, self.max_retries, self.auto_retry_rate_limits and
\* self.client, and assign no attribute of self.
ClientUnchanged == UNCHANGED clientVars

\* Mutant: range(self.max_retries)
LoopRange_NoPlusOne(m) == 0..(m - 1)

\* range(self.max_retries + 1)
LoopRange(m) == 0..m

\* Mutant: the last retry is never taken.
CanRetry_OneShort(a, m) == a + 1 < m

\* Mutant: a retry is also started after the last attempt of the loop.
CanRetry_Inclusive(a, m) == a <= m

\* attempt < self.max_retries
CanRetry(a, m) == a < m

\* What the body of the try statement does with a transport outcome:
\* returns the decoded body or raises.
TryBody(o) ==
    IF o.t = "timeout" THEN Raised(Exc("httpx.TimeoutException", "", NoneV))
    ELSE IF o.t = "network" THEN Raised(Exc("httpx.NetworkError", "", NoneV))
    ELSE IF o.t = "cancelled" THEN Raised(Exc("CancelledError", "", NoneV))
    ELSE IF o.status >= 400 THEN Raised(HandleErrorResponse(o))
    ELSE IF JsonDecodes(o.body) THEN Returned(o.body)
    ELSE Raised(Exc("JSONDecodeError", "Expecting value", NoneV))

\* Mutant: the clause for httpx.NetworkError is missing.
ExceptClause_NoNetwork(c) ==
    IF IsInstance(c, "httpx.TimeoutException") THEN "timeout"
    ELSE IF IsInstance(c, "ServerError")
            \/ IsInstance(c, "ServiceUnavailableError") THEN "server"
    ELSE IF IsInstance(c, "RateLimitError") THEN "ratelimit"
    ELSE "none"

\* Mutant: the server-error clause catches every RencomError.
ExceptClause_AnyRencomError(c) ==
    IF IsInstance(c, "httpx.TimeoutException") THEN "timeout"
    ELSE IF IsInstance(c, "httpx.NetworkError") THEN "network"
    ELSE IF IsInstance(c, "RencomError") THEN "server"
    ELSE "none"

\* Mutant: the server-error clause is `except Exception`, placed last.
ExceptClause_CatchAll(c) ==
    IF IsInstance(c, "httpx.TimeoutException") THEN "timeout"
    ELSE IF IsInstance(c, "httpx.NetworkError") THEN "network"
    ELSE IF IsInstance(c, "RateLimitError") THEN "ratelimit"
    ELSE IF IsInstance(c, "Exception") THEN "server"
    ELSE "none"

\* Mutant: the server-error clause is a bare `except:`, placed last.
ExceptClause_BareExcept(c) ==
    IF IsInstance(c, "httpx.TimeoutException") THEN "timeout"
    ELSE IF IsInstance(c, "httpx.NetworkError") THEN "network"
    ELSE IF IsInstance(c, "RateLimitError") THEN "ratelimit"
    ELSE "server"

\* The except clause of the try statement that handles an exception of
\* class c, "none" when it propagates.
ExceptClause(c) ==
    IF IsInstance(c, "httpx.TimeoutException") THEN "timeout"
    ELSE IF IsInstance(c, "httpx.NetworkError") THEN "network"
    ELSE IF IsInstance(c, "ServerError")
            \/ IsInstance(c, "ServiceUnavailableError") THEN "server"
    ELSE IF IsInstance(c, "RateLimitError") THEN "ratelimit"
    ELSE "none"

GenericFailure ==
    Exc("RencomError", "Request failed after all retry attempts", NoneV)

\* request() returns or raises
Finish(res) ==
    /\ pc' = "done"
    /\ result' = res
    /\ wait' = NoWait
    /\ nwaits' = nwaits

\* request() suspends in asyncio.sleep
Sleep(w) ==
    /\ pc' = "wait"
    /\ wait' = w
    /\ nwaits' = nwaits + 1
    /\ result' = result

\* The statements after the for loop
PostLoop ==
    IF last_exception # NoExc THEN Finish(Raised(last_exception))
    ELSE Finish(Raised(GenericFailure))

\* A caller starts a logical request with the arguments a and the extra
\* headers: the locals are fresh and the loop is entered, or skipped when
\* its range is empty.
BeginWith(a, extra) ==
    /\ pc \in {"idle", "done"}
    /\ extra_headers' = extra
    /\ request_headers' = BuildHeaders(admin_key, jwt_token, api_key, extra)
    /\ sent_headers' = <<>>
    /\ args' = a
    /\ sent' = <<>>
    /\ cancelled' = NotCancelled
    /\ last_exception' = NoExc
    /\ response' = NoOutcome
    /\ log' = <<>>
    /\ attempts' = 0
    /\ attempt' = 0
    /\ IF 0 \in LoopRange(max_retries)
       THEN /\ pc' = "send"
            /\ result' = NoResult
            /\ wait' = NoWait
            /\ nwaits' = 0
       ELSE /\ pc' = "done"
            /\ result' = Raised(GenericFailure)
            /\ wait' = NoWait
            /\ nwaits' = 0
    /\ ClientUnchanged
    /\ UNCHANGED <<current_call, parked, notRequest>>

\* Mutant: the loop variable is kept from the request before.
Begin_KeepsAttempt(extra) ==
    /\ pc \in {"idle", "done"}
    /\ extra_headers' = extra
    /\ request_headers' = BuildHeaders(admin_key, jwt_token, api_key, extra)
    /\ sent_headers' = <<>>
    /\ args' = DefaultArgs
    /\ sent' = <<>>
    /\ cancelled' = NotCancelled
    /\ last_exception' = NoExc
    /\ response' = NoOutcome
    /\ log' = <<>>
    /\ attempts' = 0
    /\ attempt' = attempt
    /\ IF 0 \in LoopRange(max_retries)
       THEN /\ pc' = "send"
            /\ result' = NoResult
            /\ wait' = NoWait
            /\ nwaits' = 0
       ELSE /\ pc' = "done"
            /\ result' = Raised(GenericFailure)
            /\ wait' = NoWait
            /\ nwaits' = 0
    /\ ClientUnchanged
    /\ UNCHANGED <<current_call, parked, notRequest>>

\* A caller starts a logical request for get("/health")
Begin(extra) == BeginWith(DefaultArgs, extra)

\* request() called on a client; what came before is not recorded.
Call(extra) == Begin(extra) /\ earlier' = earlier

\* How the request that just ended, if any, ended
Ended == [kind |-> result.kind, attempts |-> attempts, nwaits |-> nwaits]

\* request() called on a client, after the request recorded in earlier'
Request(extra) ==
    /\ Begin(extra)
    /\ earlier' = IF pc = "idle" THEN NoEarlier ELSE Ended

\* Mutant: the backoff schedule has a counter of its own, which the waits
\* that used Retry-After do not advance.
Backoff_OwnCounter(k) ==
    \E r \in JitterSamples :
        Sleep(BackoffWait(
            Cardinality({i \in 1..Len(log) : log[i].then = "backoff"}), r))

\* await self._wait_with_backoff(attempt); continue
Backoff(k) == \E r \in JitterSamples : Sleep(BackoffWait(k, r))

\* Mutant: a retry is sent without the JSON body.
SentRequest_RetryDropsBody(a, h, k) ==
    [method |-> a.method, url |-> a.path, params |-> a.params,
     json |-> IF k = 0 THEN a.json ELSE PyNone, headers |-> h]

\* self.client.request(method=method, url=path, params=params, json=json,
\* headers=request_headers) in the attempt numbered k
SentRequest(a, h, k) ==
    [method |-> a.method, url |-> a.path, params |-> a.params,
     json |-> a.json, headers |-> h]

\* One pass through the try statement: the transport call is made with
\* request_headers, its await ends with o, and the handler returns, raises,
\* or starts the sleep before the next attempt.
Attempt(o) ==
    /\ pc = "send"
    /\ sent_headers' = Append(sent_headers, request_headers)
    /\ sent' = Append(sent, SentRequest(args, request_headers, attempt))
    /\ args' = args
    /\ attempts' = attempts + 1
    /\ response' = o
    /\ attempt' = attempt
    /\ LET tb == TryBody(o)
           e == tb.exc
           clause == IF tb.kind = "value" THEN "return"
                     ELSE ExceptClause(e.type)
       IN  CASE clause = "return" ->
                  /\ Finish(tb)
                  /\ last_exception' = last_exception
             [] clause = "timeout" ->
                  LET te == Exc("TimeoutError", "Request timeout", NoneV)
                  IN  /\ last_exception' = te
                      /\ IF CanRetry(attempt, max_retries)
                         THEN Backoff(attempt)
                         ELSE Finish(Raised(te))
             [] clause = "network" ->
                  LET ne == Exc("NetworkError", "Network error", NoneV)
                  IN  /\ last_exception' = ne
                      /\ IF CanRetry(attempt, max_retries)
                         THEN Backoff(attempt)
                         ELSE Finish(Raised(ne))
             [] clause = "server" ->
                  /\ last_exception' = e
                  /\ IF CanRetry(attempt, max_retries)
                     THEN Backoff(attempt)
                     ELSE Finish(Raised(e))
             [] clause = "ratelimit" ->
                  /\ last_exception' = last_exception
                  /\ IF auto_retry_rate_limits
                        /\ CanRetry(attempt, max_retries)
                     THEN IF Truthy(e.retry_after)
                          THEN Sleep(RetryAfterWait(attempt,
                                                    e.retry_after.val))
                          ELSE Backoff(attempt)
                     ELSE Finish(Raised(e))
             [] OTHER ->
                  /\ last_exception' = last_exception
                  /\ Finish(Raised(e))
    /\ log' = Append(log, [t |-> o.t, status |-> o.status,
                           then |-> wait'.src])
    /\ ClientUnchanged
    /\ UNCHANGED <<extra_headers, request_headers, earlier, current_call,
                   parked,
                   notRequest>>

\* The transport answers the attempt in flight with o.
Send(o) ==
    /\ Attempt(o)
    /\ cancelled' = cancelled

\* The task is cancelled while the transport call is awaited:
\* CancelledError is raised at the await inside the try statement.
CancelSend ==
    /\ Attempt(TransportCancelled)
    /\ cancelled' = [at |-> "send", attempts |-> attempts + 1,
                     nwaits |-> nwaits]

\* The task is cancelled during asyncio.sleep: CancelledError is raised
\* inside the except handler that started the sleep, and leaves request().
CancelWait ==
    /\ pc = "wait"
    /\ Finish(Raised(Exc("CancelledError", "", NoneV)))
    /\ cancelled' = [at |-> "wait", attempts |-> attempts,
                     nwaits |-> nwaits]
    /\ ClientUnchanged
    /\ UNCHANGED <<extra_headers, request_headers, earlier, current_call,
                   parked,
                   sent_headers, args, sent, attempt, last_exception,
                   response, log,
                   attempts, notRequest>>

\* Mutant: when the sleep ends the loop starts over from attempt 0.
WaitDone_StartsOver ==
    /\ pc = "wait"
    /\ pc' = "send"
    /\ attempt' = 0
    /\ wait' = NoWait
    /\ attempts' = 0
    /\ nwaits' = 0
    /\ log' = <<>>
    /\ sent_headers' = <<>>
    /\ sent' = <<>>
    /\ args' = args
    /\ ClientUnchanged
    /\ UNCHANGED <<extra_headers, request_headers, earlier, last_exception,
                   response, result, cancelled, current_call, parked,
                   notRequest>>

\* The sleep ends and `continue` advances the loop: the next attempt, or
\* the statements after the loop once the range is used up.
WaitDone ==
    /\ pc = "wait"
    /\ IF attempt + 1 \in LoopRange(max_retries)
       THEN /\ attempt' = attempt + 1
            /\ pc' = "send"
            /\ wait' = NoWait
            /\ UNCHANGED <<nwaits, result>>
       ELSE /\ attempt' = attempt
            /\ PostLoop
    /\ ClientUnchanged
    /\ UNCHANGED <<extra_headers, request_headers, earlier, current_call,
                   parked,
                   sent_headers, args, sent, last_exception, response, log,
                   attempts,
                   cancelled, notRequest>>

\* request() as the convenience methods call it: no extra headers
Next ==
    \/ Call(NoExtras)
    \/ \E o \in TransportOutcomes : Send(o)
    \/ WaitDone

Spec == Init /\ [][Next]_vars

\* request() run as a task that may be cancelled at either suspension point
NextCancel ==
    \/ Call(NoExtras)
    \/ \E o \in TransportOutcomes : Send(o)
    \/ WaitDone
    \/ CancelSend
    \/ CancelWait

SpecCancel == Init /\ [][NextCancel]_vars

\* Every way of constructing the client and every headers argument, with
\* one retry configuration.
InitHeaders ==
    /\ \E c \in Ctors, ep \in Endpoints : InitClientAt(c, HeadersConfig, ep)
    /\ BackoffIdle
    /\ IterIdle
    /\ ParamsIdle
    /\ FacadeIdle
    /\ SnapshotIdle

\* One outcome of each kind: retried, returned, raised at once
HeadersOutcomes ==
    {TransportTimeout} \cup
    {Response(st, "obj_detail", Absent, Absent, Absent, Absent) :
         st \in {200, 401, 500}}

NextHeaders ==
    \/ \E x \in ExtraChoices : Call(x)
    \/ \E o \in HeadersOutcomes : Send(o)
    \/ WaitDone

SpecHeaders == InitHeaders /\ [][NextHeaders]_vars

\* request() when every awaited transport call and every awaited sleep
\* completes: a pending attempt is eventually answered and a pending sleep
\* eventually ends.
SpecLive ==
    /\ Init
    /\ [][Next]_vars
    /\ WF_vars(\E o \in TransportOutcomes : Send(o))
    /\ WF_vars(WaitDone)

\* One outcome of each kind: retried, returned, raised at once.
SequenceOutcomes ==
    {TransportTimeout} \cup
    {Response(st, "obj_detail", Absent, Absent, Absent, Absent) :
         st \in {200, 404, 503}}

\* request() called with any of its argument forms and extra headers
CallWith(a, extra) == BeginWith(a, extra) /\ earlier' = earlier

\* Extra headers that add a header, or replace a built one
SameExtras ==
    { NoExtras,
      Extras(Put(EmptyMap, "X-Request-ID", "r1")),
      Extras(Put(EmptyMap, "Content-Type", "text/plain")) }

NextSame ==
    \/ \E a \in ArgChoices, x \in SameExtras : CallWith(a, x)
    \/ \E o \in SequenceOutcomes : Send(o)
    \/ WaitDone

SpecSame == Init /\ [][NextSame]_vars

\* The locals of the call that holds the event loop, and what the model
\* records about it
Frame ==
    [pc |-> pc, extra_headers |-> extra_headers,
     request_headers |-> request_headers, sent_headers |-> sent_headers,
     args |-> args, sent |-> sent,
     attempt |-> attempt, last_exception |-> last_exception,
     response |-> response, log |-> log, attempts |-> attempts,
     nwaits |-> nwaits, wait |-> wait, result |-> result,
     cancelled |-> cancelled]

\* Mutant: the loop variable lives on the client and is shared by the calls.
Switch_SharedAttempt ==
    /\ pc # "failed"
    /\ current_call' = 3 - current_call
    /\ parked' = Frame
    /\ pc' = parked.pc
    /\ extra_headers' = parked.extra_headers
    /\ request_headers' = parked.request_headers
    /\ sent_headers' = parked.sent_headers
    /\ args' = parked.args
    /\ sent' = parked.sent
    /\ attempt' = attempt
    /\ last_exception' = parked.last_exception
    /\ response' = parked.response
    /\ log' = parked.log
    /\ attempts' = parked.attempts
    /\ nwaits' = parked.nwaits
    /\ wait' = parked.wait
    /\ result' = parked.result
    /\ cancelled' = parked.cancelled
    /\ ClientUnchanged
    /\ UNCHANGED <<earlier, notRequest>>

\* The event loop resumes the other of two request() coroutines running on
\* one HTTPClient: the running one is suspended at its await (or has not
\* started, or has finished) with its locals kept in its frame, and the
\* other one continues with its own locals.
Switch ==
    /\ pc # "failed"
    /\ current_call' = 3 - current_call
    /\ parked' = Frame
    /\ pc' = parked.pc
    /\ extra_headers' = parked.extra_headers
    /\ request_headers' = parked.request_headers
    /\ sent_headers' = parked.sent_headers
    /\ args' = parked.args
    /\ sent' = parked.sent
    /\ attempt' = parked.attempt
    /\ last_exception' = parked.last_exception
    /\ response' = parked.response
    /\ log' = parked.log
    /\ attempts' = parked.attempts
    /\ nwaits' = parked.nwaits
    /\ wait' = parked.wait
    /\ result' = parked.result
    /\ cancelled' = parked.cancelled
    /\ ClientUnchanged
    /\ UNCHANGED <<earlier, notRequest>>

NextConcurrent ==
    \/ Call(NoExtras)
    \/ \E o \in SequenceOutcomes : Send(o)
    \/ WaitDone
    \/ Switch

SpecConcurrent == Init /\ [][NextConcurrent]_vars

\* One request after another on one client
NextSequence ==
    \/ Request(NoExtras)
    \/ \E o \in SequenceOutcomes : Send(o)
    \/ WaitDone

SpecSequence == Init /\ [][NextSequence]_vars

TypeOK ==
    /\ config \in Configs
    /\ ctor \in Ctors
    /\ endpoint \in Endpoints
    /\ pc \in {"failed", "idle", "send", "wait", "done"}
    /\ Len(sent_headers) = Len(log)
    /\ attempt \in Nat
    /\ attempts \in Nat
    /\ nwaits \in Nat
    /\ response \in TransportOutcomes \cup {NoOutcome, TransportCancelled}
    /\ result.kind \in {"none", "value", "error"}

\* ------------------------------------------------------------------------
\* _wait_with_backoff() on its own
\* ------------------------------------------------------------------------
\* Finer samples of random.uniform(-0.25, 0.25), in thousandths.
BackoffJitterSamples ==
    {(JitterPermille * k) \div BackoffJitterSteps :
         k \in (-BackoffJitterSteps)..BackoffJitterSteps}

\* The first call examined is for any attempt index.
InitBackoff ==
    /\ RequestIdle
    /\ IterIdle
    /\ ParamsIdle
    /\ FacadeIdle
    /\ SnapshotIdle
    /\ bo_attempt \in 0..MaxBackoffAttempt
    /\ bo_delay = NotCalled
    /\ bo_prev = NotCalled
    /\ bo_sleep = NotCalled

\* _wait_with_backoff(bo_attempt) runs with jitter sample r; the caller's
\* next call is for the next attempt index.
WaitWithBackoff(r) ==
    /\ bo_attempt <= MaxBackoffAttempt
    /\ bo_delay' = NominalDelay(bo_attempt)
    /\ bo_sleep' = BackoffDelay(bo_attempt, r)
    /\ bo_prev' = bo_delay
    /\ bo_attempt' = bo_attempt + 1
    /\ UNCHANGED notBackoff

NextBackoff == \E r \in BackoffJitterSamples : WaitWithBackoff(r)

SpecBackoff == InitBackoff /\ [][NextBackoff]_vars

\* ------------------------------------------------------------------------
\* search_iter(): the auto-paginating async generator
\* ------------------------------------------------------------------------
\* The items of page p holding n items
PageItems(p, n) == [i \in 1..n |-> <<p, i>>]

\* Sequences of page sizes, each page holding at most lim items
SizeSeqs(lim) ==
    UNION {[1..n -> 0..lim] : n \in 1..MaxPages}

\* The pages of a result set: has_more is false on the last page only.
PagesOf(sizes) ==
    [p \in 1..Len(sizes) |->
        Page(PageItems(p, sizes[p]), p < Len(sizes))]

\* What the server answers to the n-th search() call
ServerPage(n) ==
    IF n <= Len(it_pages) THEN it_pages[n] ELSE Page(<<>>, FALSE)

InitIter ==
    /\ RequestIdle
    /\ BackoffIdle
    /\ ParamsIdle
    /\ FacadeIdle
    /\ SnapshotIdle
    /\ it_limit \in 1..MaxPageItems
    /\ \E sizes \in SizeSeqs(it_limit) : it_pages = PagesOf(sizes)
    /\ it_pc = "start"
    /\ it_offset = 0
    /\ it_idx = 0
    /\ it_calls = <<>>
    /\ it_yielded = <<>>
    /\ it_asks = 0
    /\ it_run = 1
    /\ it_failed = NoFailure
    /\ it_raised = "none"
    /\ it_given = <<>>

\* The query and sort_by arguments of the search_iter call
IterQuery == "weather"
IterSortBy == "recommended"

\* self.search(query, sort_by=sort_by, limit=limit, offset=offset)
SearchCall(off) ==
    [query |-> IterQuery, sort_by |-> IterSortBy, limit |-> it_limit,
     offset |-> off]

\* Mutant: the offset advances by the number of items the page held.
NextOffset_ByItems(off, lim, page) == off + Len(page.items)

\* offset += limit
NextOffset(off, lim, page) == off + lim

\* Mutant: the generator stops at the first page shorter than limit.
StopAfter_ShortPage(page) == Len(page.items) < it_limit

\* if not page.has_more: break
StopAfter(page) == ~page.has_more

\* Mutant: the next page is fetched as soon as the last item of a page
\* has been handed out.
SuspendsAfter_Prefetch(i, n, more) == ~(i = n /\ more)

\* yield result: the generator is suspended after every item
SuspendsAfter(i, n, more) == TRUE

\* The statements after the for loop: leave the while loop, or advance
\* offset and await the next search().
EndOfPage(page) ==
    IF StopAfter(page)
    THEN /\ it_pc' = "finished"
         /\ UNCHANGED <<it_offset, it_calls>>
    ELSE /\ it_offset' = NextOffset(it_offset, it_limit, page)
         /\ it_calls' = Append(it_calls,
                 SearchCall(NextOffset(it_offset, it_limit, page)))
         /\ it_pc' = "fetching"

\* The for loop reaches item i of the page and yields it.
Emit(page, i) ==
    /\ it_yielded' = Append(it_yielded, page.items[i])
    /\ it_idx' = i
    /\ IF SuspendsAfter(i, Len(page.items), page.has_more)
       THEN /\ it_pc' = "yielded"
            /\ UNCHANGED <<it_offset, it_calls>>
       ELSE EndOfPage(page)

\* The consumer asks for the next item (__anext__): the generator starts,
\* or resumes after the yield it was suspended at.
ANext ==
    /\ it_pc \in {"start", "yielded"}
    /\ it_asks' = it_asks + 1
    /\ IF it_pc = "start"
       THEN /\ it_offset' = 0
            /\ it_calls' = Append(it_calls, SearchCall(0))
            /\ it_pc' = "fetching"
            /\ UNCHANGED <<it_idx, it_yielded>>
       ELSE LET page == ServerPage(Len(it_calls))
            IN  IF it_idx < Len(page.items)
                THEN Emit(page, it_idx + 1)
                ELSE /\ EndOfPage(page)
                     /\ UNCHANGED <<it_idx, it_yielded>>
    /\ UNCHANGED <<it_pages, it_limit, it_run, it_failed, it_raised,
                   it_given, notIter>>

\* The awaited search() returns its page: the for loop yields the first
\* item, or the page is empty.
SearchReturns ==
    /\ it_pc = "fetching"
    /\ LET page == ServerPage(Len(it_calls))
       IN  IF Len(page.items) > 0
           THEN Emit(page, 1)
           ELSE /\ EndOfPage(page)
                /\ UNCHANGED <<it_idx, it_yielded>>
    /\ UNCHANGED <<it_pages, it_limit, it_asks, it_run, it_failed, it_raised,
                   it_given, notIter>>

\* The consumer leaves its loop after an item and the generator is never
\* resumed.
Abandon ==
    /\ it_pc = "yielded"
    /\ it_pc' = "closed"
    /\ UNCHANGED <<it_pages, it_limit, it_offset, it_idx, it_calls,
                   it_yielded, it_asks, it_run, it_failed, it_raised,
                   it_given, notIter>>

\* The errors search() raises once request() has given up
IterErrors == {"NotFoundError", "ServiceUnavailableError", "TimeoutError"}

\* Mutant: the generator catches the error and goes on to the next page.
SearchFails_SkipsPage(e) ==
    /\ it_pc = "fetching"
    /\ it_failed' = [call |-> Len(it_calls), error |-> e]
    /\ it_offset' = it_offset + it_limit
    /\ it_calls' = Append(it_calls, SearchCall(it_offset + it_limit))
    /\ UNCHANGED <<it_pc, it_pages, it_limit, it_idx, it_yielded, it_asks,
                   it_run, it_raised, it_given, notIter>>

\* The awaited search() raises e: no except clause in the generator, so
\* the pending __anext__ raises e to the consumer and the generator is over.
SearchFails(e) ==
    /\ it_pc = "fetching"
    /\ it_failed' = [call |-> Len(it_calls), error |-> e]
    /\ it_raised' = e
    /\ it_pc' = "raised"
    /\ UNCHANGED <<it_pages, it_limit, it_offset, it_idx, it_calls,
                   it_yielded, it_asks, it_run, it_given, notIter>>

\* The consumer asks a generator that raised for one more item:
\* StopAsyncIteration, and the body does not run again.
ANextAfterError ==
    /\ it_pc = "raised"
    /\ it_pc' = "stopped"
    /\ it_asks' = it_asks + 1
    /\ UNCHANGED <<it_pages, it_limit, it_offset, it_idx, it_calls,
                   it_yielded, it_run, it_failed, it_raised, it_given,
                   notIter>>

\* search_iter is called again with the same arguments: a new generator,
\* none of whose body has run yet.
Restart ==
    /\ it_pc \in {"finished", "closed", "stopped"}
    /\ it_run < MaxRuns
    /\ it_run' = it_run + 1
    /\ it_pc' = "start"
    /\ it_idx' = 0
    /\ it_calls' = <<>>
    /\ it_yielded' = <<>>
    /\ it_asks' = 0
    /\ it_failed' = NoFailure
    /\ it_raised' = "none"
    /\ UNCHANGED <<it_pages, it_limit, it_offset, it_given, notIter>>

NextIter ==
    \/ ANext
    \/ SearchReturns
    \/ Abandon
    \/ \E e \in IterErrors : SearchFails(e)
    \/ ANextAfterError
    \/ Restart

SpecIter == InitIter /\ [][NextIter]_vars

\* Mutant: an item is handed out as soon as the generator has yielded it.
SyncNext_Streaming ==
    /\ it_pc \in {"yielded", "finished"}
    /\ Len(it_given) < Len(it_yielded)
    /\ it_given' = Append(it_given, it_yielded[Len(it_given) + 1])
    /\ UNCHANGED <<it_pages, it_limit, it_pc, it_offset, it_idx, it_calls,
                   it_yielded, it_asks, it_run, it_failed, it_raised,
                   notIter>>

\* SyncX402Client.search_iter has returned iter(all_results), which is
\* after self._run(collect()) ran the generator to its end, and the consumer
\* takes the next item of that list.
SyncNext ==
    /\ it_pc = "finished"
    /\ Len(it_given) < Len(it_yielded)
    /\ it_given' = Append(it_given, it_yielded[Len(it_given) + 1])
    /\ UNCHANGED <<it_pages, it_limit, it_pc, it_offset, it_idx, it_calls,
                   it_yielded, it_asks, it_run, it_failed, it_raised,
                   notIter>>

\* SyncX402Client.search_iter: collect() is the generator's consumer and
\* asks for every item (ANext); the caller sees the list afterwards.
NextSyncIter ==
    \/ ANext
    \/ SearchReturns
    \/ \E e \in IterErrors : SearchFails(e)
    \/ SyncNext

SpecSyncIter == InitIter /\ [][NextSyncIter]_vars

\* ------------------------------------------------------------------------
\* ProductClient.search() and MerchantClient.search(): query parameters
\* ------------------------------------------------------------------------
\* Python values by type; v is the value as text.
NoneVal == [t |-> "none", v |-> "None"]
IntVal(v) == [t |-> "int", v |-> v]
StrVal(v) == [t |-> "str", v |-> v]
ListVal(v) == [t |-> "list", v |-> v]
BoolVal(v) == [t |-> "bool", v |-> v]

\* bool(x)
TruthyVal(x) ==
    CASE x.t = "none" -> FALSE
      [] x.t = "int" -> x.v # "0"
      [] x.t = "str" -> x.v # ""
      [] x.t = "list" -> x.v # "[]"
      [] x.t = "bool" -> x.v # "False"

OptInts == {NoneVal, IntVal("0"), IntVal("5")}
OptStrs == {NoneVal, StrVal(""), StrVal("x")}
OptLists == {NoneVal, ListVal("[]"), ListVal("[a]")}
OptBools == {NoneVal, BoolVal("False"), BoolVal("True")}
OptConditions == {NoneVal, StrVal("new")}
Queries == {StrVal(""), StrVal("laptop")}

ProductArgs ==
    [query : Queries, price_min : OptInts, price_max : OptInts,
     category : OptStrs, categories : OptLists, brand : OptStrs,
     condition : OptConditions, merchant_domains : OptLists,
     limit : {IntVal("20")}, offset : {IntVal("0")}, session_id : OptStrs]

MerchantArgs ==
    [capabilities : OptLists, industry : OptStrs, region : OptStrs,
     has_catalog : OptBools, limit : {IntVal("20")},
     offset : {IntVal("0")}, session_id : OptStrs]

\* Mutant: every filter is tested with `is not None`.
IfTruthy_IsNotNone(params, k, v) ==
    IF v.t # "none" THEN Put(params, k, v) ELSE params

\* if v: params[k] = v
IfTruthy(params, k, v) == IF TruthyVal(v) THEN Put(params, k, v) ELSE params

\* if v is not None: params[k] = v
IfNotNone(params, k, v) == IF v.t # "none" THEN Put(params, k, v) ELSE params

\* The params dict ProductClient.search builds from its arguments
ProductParams(a) ==
    LET p0 == Put(Put(Put(EmptyMap, "q", a.query), "limit", a.limit),
                  "offset", a.offset)
        p1 == IfNotNone(p0, "price_min", a.price_min)
        p2 == IfNotNone(p1, "price_max", a.price_max)
        p3 == IfTruthy(p2, "category", a.category)
        p4 == IfTruthy(p3, "categories", a.categories)
        p5 == IfTruthy(p4, "brand", a.brand)
        p6 == IfTruthy(p5, "condition", a.condition)
        p7 == IfTruthy(p6, "merchant_domains", a.merchant_domains)
    IN  IfTruthy(p7, "session_id", a.session_id)

\* The params dict MerchantClient.search builds from its arguments
MerchantParams(a) ==
    LET p0 == Put(Put(EmptyMap, "limit", a.limit), "offset", a.offset)
        p1 == IfTruthy(p0, "capabilities", a.capabilities)
        p2 == IfTruthy(p1, "industry", a.industry)
        p3 == IfTruthy(p2, "region", a.region)
        p4 == IfNotNone(p3, "has_catalog", a.has_catalog)
    IN  IfTruthy(p4, "session_id", a.session_id)

InitParams ==
    /\ RequestIdle
    /\ BackoffIdle
    /\ IterIdle
    /\ FacadeIdle
    /\ SnapshotIdle
    /\ \/ pm_client = "products" /\ pm_args \in ProductArgs
       \/ pm_client = "merchants" /\ pm_args \in MerchantArgs
    /\ pm_pc = "called"
    /\ pm_params = EmptyMap

\* ProductClient.search up to self._http.get(..., params=params)
ProductSearch ==
    /\ pm_pc = "called"
    /\ pm_client = "products"
    /\ pm_params' = ProductParams(pm_args)
    /\ pm_pc' = "sent"
    /\ UNCHANGED <<pm_client, pm_args, notParams>>

\* MerchantClient.search up to self._http.get(..., params=params)
MerchantSearch ==
    /\ pm_pc = "called"
    /\ pm_client = "merchants"
    /\ pm_params' = MerchantParams(pm_args)
    /\ pm_pc' = "sent"
    /\ UNCHANGED <<pm_client, pm_args, notParams>>

NextParams == ProductSearch \/ MerchantSearch

SpecParams == InitParams /\ [][NextParams]_vars

\* ------------------------------------------------------------------------
\* The synchronous facade: RencomClient and the Sync* wrappers
\* ------------------------------------------------------------------------
\* loop.run_until_complete(coro) on loop l: "ok" when the coroutine ran, or
\* the RuntimeError that _check_closed / _check_running raise.
RunUntilComplete(l, running, closed) ==
    IF l \in closed THEN "Event loop is closed"
    ELSE IF running = l THEN "This event loop is already running"
    ELSE IF running # 0
    THEN "Cannot run the event loop while another loop is running"
    ELSE "ok"

ClearError == "Cannot use sync client from an already running event loop"

\* The thread the facade is constructed in: no event loop set, a current
\* loop (idle, running, or closed).
Threads ==
    { [made |-> 0, current |-> 0, running |-> 0, closed |-> {}],
      [made |-> 1, current |-> 1, running |-> 0, closed |-> {}],
      [made |-> 1, current |-> 1, running |-> 1, closed |-> {}],
      [made |-> 1, current |-> 1, running |-> 0, closed |-> {1}] }

\* RencomClient.__init__ in thread th: self._loop is the loop
\* get_event_loop() returns, or a new loop, installed as the current one,
\* when there is none or it is closed.
RencomClientInit(th) ==
    /\ fc_kind = "RencomClient"
    /\ fc_running = th.running
    /\ IF th.current = 0 \/ (th.running = 0 /\ th.current \in th.closed)
       THEN /\ fc_made = th.made + 1
            /\ fc_loop = th.made + 1
            /\ fc_current = th.made + 1
       ELSE /\ fc_made = th.made
            /\ fc_loop = th.current
            /\ fc_current = th.current
    /\ fc_closed = th.closed

\* SyncX402Client(async_client, loop) with loop None (0) or a loop of th
SyncClientInit(th, loop) ==
    /\ fc_kind = "SyncX402Client"
    /\ fc_loop = loop
    /\ fc_made = th.made
    /\ fc_closed = th.closed
    /\ fc_current = th.current
    /\ fc_running = th.running

InitFacade ==
    /\ RequestIdle
    /\ BackoffIdle
    /\ IterIdle
    /\ ParamsIdle
    /\ SnapshotIdle
    /\ \E th \in Threads :
           \/ RencomClientInit(th)
           \/ \E loop \in 0..th.made : SyncClientInit(th, loop)
    /\ fc_http = "open"
    /\ fc_call = NoCall
    /\ fc_close = "none"
    /\ fc_active = NoActive

\* The result of a facade method call that ended with run_until_complete
\* answering r.
CallResult(path, reentrant, r, created, installed) ==
    [path |-> path, reentrant |-> reentrant,
     outcome |-> IF r = "ok" THEN "returned" ELSE r,
     requested |-> r = "ok", created |-> created, installed |-> installed]

\* The RuntimeError of run_until_complete when a callback stopped the loop
LoopStopped == "Event loop stopped before Future completed."

\* The RuntimeError of a coroutine that was started in one loop and is run
\* again in another while it waits for a future of the first
DifferentLoop == "attached to a different loop"

\* The RuntimeError of the HTTP client when a request is sent after it
\* was closed; no except clause of request() catches it
ClientClosed == "Cannot send a request, as the client has been closed."

\* A RuntimeError raised by the transport
TransportRuntimeError == "RuntimeError"

\* The RuntimeError of running a coroutine again after it has finished
CannotReuse == "cannot reuse already awaited coroutine"

\* The errors that `except RuntimeError` catches
IsRuntimeError(r) ==
    r \in {ClientClosed, TransportRuntimeError, DifferentLoop}

\* The result of a facade method call whose coroutine was started and
\* whose run_until_complete ended with r
StartedResult(path, r, created, installed) ==
    [path |-> path, reentrant |-> FALSE,
     outcome |-> IF r = "ok" THEN "returned" ELSE r,
     requested |-> TRUE, created |-> created, installed |-> installed]

\* The method call ended at once with the record call
EndedAtOnce(call) ==
    /\ fc_call' = call
    /\ UNCHANGED <<fc_running, fc_active>>

\* run_until_complete(coro) started running loop l; the call returns in a
\* later step
Started(l, path, stage, rerun) ==
    /\ fc_running' = l
    /\ fc_active' = [op |-> "call", path |-> path, stage |-> stage,
                     rerun |-> rerun,
                     http |-> IF rerun THEN "open" ELSE fc_http]
    /\ fc_call' = fc_call

\* _run with self._loop set
RunGiven ==
    /\ fc_loop # 0
    /\ IF fc_running = fc_loop /\ fc_loop \notin fc_closed
       THEN EndedAtOnce([path |-> "given", reentrant |-> TRUE,
                         outcome |-> ClearError, requested |-> FALSE,
                         created |-> 0, installed |-> FALSE])
       ELSE IF RunUntilComplete(fc_loop, fc_running, fc_closed) = "ok"
       THEN Started(fc_loop, "given", "first", FALSE)
       ELSE EndedAtOnce(
                CallResult("given", FALSE,
                           RunUntilComplete(fc_loop, fc_running, fc_closed),
                           0, FALSE))
    /\ UNCHANGED <<fc_made, fc_closed, fc_current>>

\* The except RuntimeError branch of _run: a new loop is created, installed
\* as the current loop and used; when it cannot run, it is closed at once.
\* running is the loop that runs when the branch is entered.
RunInNewLoop(reentrant, rerun, running) ==
    LET new == fc_made + 1
        r == RunUntilComplete(new, running, fc_closed)
    IN  /\ fc_made' = new
        /\ fc_current' = new
        /\ IF r = "ok"
           THEN /\ fc_closed' = fc_closed
                /\ Started(new, "fallback", "new", rerun)
           ELSE /\ fc_closed' = fc_closed \cup {new}
                /\ EndedAtOnce(CallResult("fallback", reentrant, r, 1, TRUE))

\* _run with self._loop None. asyncio.get_event_loop() returns the running
\* loop, else the current loop; with no current loop it creates and
\* installs one or raises RuntimeError, depending on thread and version.
RunFallback ==
    /\ fc_loop = 0
    /\ IF fc_running # 0
       THEN RunInNewLoop(TRUE, FALSE, fc_running)
       ELSE IF fc_current # 0
       THEN IF RunUntilComplete(fc_current, fc_running, fc_closed) = "ok"
            THEN /\ Started(fc_current, "fallback", "first", FALSE)
                 /\ UNCHANGED <<fc_made, fc_closed, fc_current>>
            ELSE RunInNewLoop(FALSE, FALSE, 0)
       ELSE \/ /\ fc_made' = fc_made + 1
               /\ fc_current' = fc_made + 1
               /\ fc_closed' = fc_closed
               /\ Started(fc_made + 1, "fallback", "first", FALSE)
            \/ RunInNewLoop(FALSE, FALSE, 0)

\* A synchronous facade method is called: self._run(coro), up to the point
\* where it raises or run_until_complete runs the loop
SyncCall ==
    /\ fc_kind # "none"
    /\ fc_made < MaxLoops
    /\ RunGiven \/ RunFallback
    /\ UNCHANGED <<fc_kind, fc_loop, fc_http, fc_close, notFacade>>

\* How the coroutine of a method call can end. paid_search raises
\* ImportError in its first step, before any request, when the x402
\* package is missing. A request sent on a closed HTTP client raises
\* RuntimeError. Otherwise the request gives the decoded response, an
\* error of the SDK, the ValueError of int() on a 429 header or of a body
\* that is not JSON, or a RuntimeError of the transport. A coroutine that
\* was started in a loop that was stopped may fail when it is run again.
\* a is the call in progress, http the state of the HTTP client now.
Completions(a, http) ==
    (IF a.rerun THEN {DifferentLoop} ELSE {"ImportError"})
    \cup (IF a.http = "closed"
          THEN {ClientClosed}
          ELSE {"ok", "RencomError", "ValueError", TransportRuntimeError}
               \cup (IF http = "closed" THEN {ClientClosed} ELSE {}))

\* The coroutine of the method call in progress completes and
\* run_until_complete returns its result or raises its error; an error
\* that is not a RuntimeError reaches the caller on every path. In the try
\* block of the fallback path a RuntimeError is caught by
\* `except RuntimeError`: a new loop is made and installed, the finished
\* coroutine is run in it again, which raises RuntimeError, and the loop
\* is closed. A loop _run made itself is closed by `finally: loop.close()`.
ReturnCall ==
    /\ fc_active.op = "call"
    /\ \E r \in Completions(fc_active, fc_http) :
           IF /\ fc_active.path = "fallback"
              /\ fc_active.stage = "first"
              /\ IsRuntimeError(r)
           THEN /\ fc_made < MaxLoops
                /\ fc_made' = fc_made + 1
                /\ fc_current' = fc_made + 1
                /\ fc_closed' = fc_closed \cup {fc_made + 1}
                /\ fc_call' = StartedResult("fallback", CannotReuse, 1, TRUE)
           ELSE /\ fc_call' = IF fc_active.stage = "new"
                              THEN StartedResult(fc_active.path, r, 1, TRUE)
                              ELSE StartedResult(fc_active.path, r, 0, FALSE)
                /\ fc_closed' = IF fc_active.stage = "new"
                                THEN fc_closed \cup {fc_running}
                                ELSE fc_closed
                /\ UNCHANGED <<fc_made, fc_current>>
    /\ fc_running' = 0
    /\ fc_active' = NoActive
    /\ UNCHANGED <<fc_kind, fc_loop, fc_http, fc_close, notFacade>>

\* A callback of the running loop calls loop.stop() before the coroutine
\* of the method call is complete: run_until_complete raises RuntimeError.
\* A request on a closed HTTP client ends the coroutine in its first
\* step, before a stop takes effect.
\* With a given loop the caller gets it; in the try block of the fallback
\* path `except RuntimeError` catches it and runs the same coroutine in a
\* new loop; in the new loop the caller gets it after loop.close().
StopLoop ==
    /\ fc_active.op = "call"
    /\ fc_active.http = "open"
    /\ CASE fc_active.path = "given" ->
              /\ fc_call' = StartedResult("given", LoopStopped, 0, FALSE)
              /\ fc_running' = 0
              /\ fc_active' = NoActive
              /\ UNCHANGED <<fc_made, fc_closed, fc_current>>
         [] fc_active.path = "fallback" /\ fc_active.stage = "first" ->
              /\ fc_made < MaxLoops
              /\ RunInNewLoop(FALSE, TRUE, 0)
         [] OTHER ->
              /\ fc_call' = StartedResult("fallback", LoopStopped, 1, TRUE)
              /\ fc_closed' = fc_closed \cup {fc_running}
              /\ fc_running' = 0
              /\ fc_active' = NoActive
              /\ UNCHANGED <<fc_made, fc_current>>
    /\ UNCHANGED <<fc_kind, fc_loop, fc_http, fc_close, notFacade>>

\* RencomClient.close(), also reached through __exit__, up to the point
\* where it returns, raises or run_until_complete runs the stored loop
Close ==
    /\ fc_kind = "RencomClient"
    /\ IF fc_loop \notin fc_closed
       THEN IF RunUntilComplete(fc_loop, fc_running, fc_closed) = "ok"
            THEN /\ fc_running' = fc_loop
                 /\ fc_active' = [op |-> "close", path |-> "given",
                                  stage |-> "first", rerun |-> FALSE,
                                  http |-> fc_http]
                 /\ fc_close' = fc_close
            ELSE /\ fc_close' = "raised"
                 /\ UNCHANGED <<fc_running, fc_active>>
       ELSE /\ fc_close' = "returned"
            /\ UNCHANGED <<fc_running, fc_active>>
    /\ UNCHANGED <<fc_kind, fc_loop, fc_made, fc_closed, fc_current,
                   fc_http, fc_call, notFacade>>

\* The loop runs self._async_client.close() up to the point where
\* self.client.aclose() has marked the HTTP client closed and waits for
\* the transport
CloseHttp ==
    /\ fc_active.op = "close"
    /\ fc_active.stage = "first"
    /\ fc_http' = "closed"
    /\ fc_active' = [fc_active EXCEPT !.stage = "closed"]
    /\ UNCHANGED <<fc_kind, fc_loop, fc_made, fc_closed, fc_current,
                   fc_running, fc_call, fc_close, notFacade>>

\* aclose() completes and run_until_complete of close() returns
ReturnClose ==
    /\ fc_active.op = "close"
    /\ fc_active.stage = "closed"
    /\ fc_close' = "returned"
    /\ fc_running' = 0
    /\ fc_active' = NoActive
    /\ UNCHANGED <<fc_kind, fc_loop, fc_made, fc_closed, fc_current,
                   fc_http, fc_call, notFacade>>

\* A callback of the stored loop calls loop.stop() while aclose() waits
\* for the transport: run_until_complete raises RuntimeError out of
\* close(), the HTTP client stays marked closed. aclose() on a client
\* that was closed before does not wait.
StopClose ==
    /\ fc_active.op = "close"
    /\ fc_active.stage = "closed"
    /\ fc_active.http = "open"
    /\ fc_close' = "raised"
    /\ fc_running' = 0
    /\ fc_active' = NoActive
    /\ UNCHANGED <<fc_kind, fc_loop, fc_made, fc_closed, fc_current,
                   fc_http, fc_call, notFacade>>

\* `await client.close()` or the end of `async with client:` on the
\* AsyncRencomClient whose sub-client a Sync* wrapper was given, in a task
\* of the running loop
AsyncClose ==
    /\ fc_kind = "SyncX402Client"
    /\ fc_running # 0
    /\ fc_http' = "closed"
    /\ UNCHANGED <<fc_kind, fc_loop, fc_made, fc_closed, fc_current,
                   fc_running, fc_call, fc_close, fc_active, notFacade>>

\* The program starts running the thread's current loop and calls the
\* facade from inside it.
EnterLoop ==
    /\ fc_kind # "none"
    /\ fc_running = 0
    /\ fc_current # 0
    /\ fc_current \notin fc_closed
    /\ fc_running' = fc_current
    /\ UNCHANGED <<fc_kind, fc_loop, fc_made, fc_closed, fc_current,
                   fc_http, fc_call, fc_close, fc_active, notFacade>>

\* The loop the program runs stops.
LeaveLoop ==
    /\ fc_running # 0
    /\ fc_active.op = "none"
    /\ fc_running' = 0
    /\ UNCHANGED <<fc_kind, fc_loop, fc_made, fc_closed, fc_current,
                   fc_http, fc_call, fc_close, fc_active, notFacade>>

\* The program closes the thread's current loop itself.
CloseLoop ==
    /\ fc_kind # "none"
    /\ fc_running = 0
    /\ fc_current # 0
    /\ fc_current \notin fc_closed
    /\ fc_closed' = fc_closed \cup {fc_current}
    /\ UNCHANGED <<fc_kind, fc_loop, fc_made, fc_current, fc_running,
                   fc_http, fc_call, fc_close, fc_active, notFacade>>

NextFacade ==
    \/ SyncCall \/ ReturnCall \/ StopLoop
    \/ Close \/ CloseHttp \/ ReturnClose \/ StopClose \/ AsyncClose
    \/ EnterLoop \/ LeaveLoop \/ CloseLoop

SpecFacade == InitFacade /\ [][NextFacade]_vars

\* ------------------------------------------------------------------------
\* _parse_rate_limit_headers()
\* ------------------------------------------------------------------------
\* info[key] = value
SetItem(info, key, value) ==
    [f \in DOMAIN info \cup {key} |-> IF f = key THEN value ELSE info[f]]

\* if "<header>" in headers: info["<field>"] = int(headers["<header>"])
ParseField(h, i, info) ==
    LET name == RateLimitFields[i].header
        field == RateLimitFields[i].field
    IN IF h[name].tag = "absent"
       THEN [ok |-> TRUE, info |-> info]
       ELSE IF ParseInt(h[name]).ok
            THEN [ok |-> TRUE,
                  info |-> SetItem(info, field, ParseInt(h[name]).val)]
            ELSE [ok |-> FALSE, info |-> info]

\* The five if statements from the i-th on; a ValueError of int() leaves
\* the function at once
RECURSIVE ParseFrom(_, _, _)
ParseFrom(h, i, info) ==
    IF i > Len(RateLimitFields)
    THEN [state |-> "returned", info |-> info]
    ELSE LET step == ParseField(h, i, info)
         IN IF step.ok
            THEN ParseFrom(h, i + 1, step.info)
            ELSE [state |-> "ValueError", info |-> EmptyInfo]

ParseRateLimitHeaders(h) == ParseFrom(h, 1, EmptyInfo)

\* The header dicts the parser is given
SnapshotHeaders ==
    { [n \in RateLimitHeaderNames |->
          CASE n = "X-RateLimit-Limit-Minute" -> lm
            [] n = "X-RateLimit-Remaining-Minute" -> rm
            [] n = "X-RateLimit-Limit-Daily" -> ld
            [] n = "X-RateLimit-Remaining-Daily" -> rd
            [] OTHER -> rs] :
        lm \in {Absent, IntText(0), IntText(1), Malformed},
        rm \in {Absent, IntText(0)},
        ld \in {Absent, IntText(1)},
        rd \in {Absent, IntText(1)},
        rs \in {Absent, IntText(1), EmptyText} }

InitSnapshot ==
    /\ RequestIdle
    /\ BackoffIdle
    /\ IterIdle
    /\ ParamsIdle
    /\ FacadeIdle
    /\ SnapshotIdle

\* One call of self._parse_rate_limit_headers(headers)
ParseRateLimit(h) ==
    /\ rl_prev' = rl_headers
    /\ rl_headers' = h
    /\ rl_info' = ParseRateLimitHeaders(h)
    /\ UNCHANGED notSnapshot

NextSnapshot == \E h \in SnapshotHeaders : ParseRateLimit(h)

SpecSnapshot == InitSnapshot /\ [][NextSnapshot]_vars

\* ------------------------------------------------------------------------
\* Properties
\* ------------------------------------------------------------------------
LastAttempt == log[Len(log)]

IsServerFailure(a) == a.t = "response" /\ a.status >= 500

IsRetryableFailure(a) == a.t \in {"timeout", "network"} \/ IsServerFailure(a)

AllServerFailures(l) == \A i \in 1..Len(l) : IsServerFailure(l[i])

\* C1: one call to request() makes at most max_retries + 1 transport
\* attempts and its attempt counter never exceeds max_retries, for every
\* max_retries >= 0 and every sequence of transport outcomes.
C1_AttemptBound ==
    config.max_retries >= 0 =>
        /\ attempts <= config.max_retries + 1
        /\ attempt <= config.max_retries

C1_Witness ==
    /\ config.max_retries = MaxRetriesBound
    /\ pc = "done"
    /\ result.kind = "error"
    /\ attempts = config.max_retries + 1
    /\ attempt = config.max_retries

\* C2: N consecutive 5xx responses followed by a success: with
\* max_retries = N every failure is retried and the success body is returned
\* after exactly N + 1 attempts; with max_retries = N - 1 a Server error is
\* raised after exactly N attempts.
C2_RetryOn5xx ==
    LET n == Len(log)
    IN  /\ (n >= 1 /\ AllServerFailures(log) /\ n <= config.max_retries) =>
                /\ pc \in {"wait", "send"}
                /\ result.kind = "none"
        /\ (n >= 1 /\ AllServerFailures(SubSeq(log, 1, n - 1))
                /\ config.max_retries = n - 1
                /\ LastAttempt.t = "response" /\ LastAttempt.status < 400
                /\ response.body \notin {"text", "empty"}) =>
                /\ pc = "done"
                /\ result = Returned(response.body)
                /\ attempts = n
        /\ (n >= 1 /\ AllServerFailures(log) /\ config.max_retries = n - 1) =>
                /\ pc = "done"
                /\ result.kind = "error"
                /\ IsInstance(result.exc.type, "ServerError")
                /\ attempts = n

C2_Witness ==
    /\ config.max_retries >= 2
    /\ pc = "done"
    /\ result.kind = "value"
    /\ attempts = config.max_retries + 1
    /\ AllServerFailures(SubSeq(log, 1, Len(log) - 1))

\* C3: timeouts, network failures and 5xx are retried while
\* attempt < max_retries; once retries are exhausted request() raises the
\* typed error of the last attempt, never the generic failure.
C3_TypedErrorOf(a) ==
    IF a.t = "timeout" THEN "TimeoutError"
    ELSE IF a.t = "network" THEN "NetworkError"
    ELSE IF a.status = 503 THEN "ServiceUnavailableError"
    ELSE "ServerError"

C3_RetryThenTypedError ==
    (Len(log) > 0 /\ IsRetryableFailure(LastAttempt)) =>
        IF Len(log) - 1 < config.max_retries
        THEN /\ pc \in {"wait", "send"}
             /\ result.kind = "none"
             /\ nwaits = Len(log)
        ELSE /\ pc = "done"
             /\ result.kind = "error"
             /\ result.exc.type = C3_TypedErrorOf(LastAttempt)
             /\ result.exc.message # "Request failed after all retry attempts"

C3_Witness ==
    /\ pc = "done"
    /\ Len(log) = 3
    /\ log[1].t = "timeout"
    /\ log[2].t = "response" /\ log[2].status = 503
    /\ log[3].t = "network"
    /\ result.exc.type = "NetworkError"

\* C4: a 4xx response other than 429, on any attempt, makes request() raise
\* that status's typed error at once: no wait and no further attempt.
C4_TypedErrorOf(status) ==
    CASE status = 400 -> "ValidationError"
      [] status = 401 -> "AuthenticationError"
      [] status = 403 -> "AuthorizationError"
      [] status = 404 -> "NotFoundError"
      [] OTHER -> "RencomError"

C4_ClientErrorImmediate ==
    (Len(log) > 0 /\ LastAttempt.t = "response"
        /\ LastAttempt.status \in (400..499) \ {429}) =>
        /\ pc = "done"
        /\ result.kind = "error"
        /\ result.exc.type = C4_TypedErrorOf(LastAttempt.status)
        /\ wait = NoWait
        /\ nwaits = Len(log) - 1
        /\ attempts = Len(log)

C4_Witness ==
    /\ pc = "done"
    /\ config.auto_retry_rate_limits
    /\ Len(log) = 2
    /\ config.max_retries >= 2
    /\ LastAttempt.status = 404
    /\ result.exc.type = "NotFoundError"
    /\ nwaits = 1

\* C5 (as claimed): with auto_retry_rate_limits disabled, a 429 response
\* makes request() raise a RateLimit error on that attempt, with no wait and
\* no further attempt, for every max_retries.
C5_RateLimitNoAutoRetry ==
    (~config.auto_retry_rate_limits /\ Len(log) > 0
        /\ LastAttempt.t = "response" /\ LastAttempt.status = 429) =>
        /\ pc = "done"
        /\ result.kind = "error"
        /\ result.exc.type = "RateLimitError"
        /\ wait = NoWait
        /\ nwaits = Len(log) - 1
        /\ attempts = Len(log)

\* C6 (as claimed): while the executor waits after a 429 response that
\* carries an integer Retry-After header, the wait lasts exactly that number
\* of seconds, whatever the integer is.
C6_WaitIsRetryAfter ==
    (pc = "wait" /\ LastAttempt.t = "response" /\ LastAttempt.status = 429
        /\ response.retry_after.tag = "int") =>
        /\ wait.src = "retry_after"
        /\ wait.ms = response.retry_after.val * 1000

\* C7 (as claimed): while the executor waits after a 429 response that
\* carries no Retry-After header, the wait follows the backoff schedule of
\* the current attempt: min(2^attempt, 60) seconds, within 25 percent.
C7_WaitIsBackoff ==
    (pc = "wait" /\ LastAttempt.t = "response" /\ LastAttempt.status = 429
        /\ response.retry_after.tag = "absent") =>
        LET k == Len(log) - 1
            nominal == IF Pow2(k) < 60 THEN 1000 * Pow2(k) ELSE 60000
        IN  /\ wait.src = "backoff"
            /\ 4 * wait.ms >= 3 * nominal
            /\ 4 * wait.ms <= 5 * nominal

\* C8 (as claimed): every finished call to request() ended in a decoded JSON
\* value or in one error of the taxonomy rooted at RencomError, for every
\* transport outcome, status, body and header value.
C8_ValueOrRencomError ==
    pc = "done" =>
        \/ result.kind = "value"
        \/ /\ result.kind = "error"
           /\ IsInstance(result.exc.type, "RencomError")

\* C9: a response with status < 400 whose body is not JSON fails on that
\* attempt with a parsing failure that is none of the retryable error kinds:
\* no wait and no further attempt, even when attempts remain.
C9_DecodeFailureNotRetried ==
    (Len(log) > 0 /\ LastAttempt.t = "response" /\ LastAttempt.status < 400
        /\ response.body \in {"text", "empty"}) =>
        /\ pc = "done"
        /\ result.kind = "error"
        /\ result.exc.type = "JSONDecodeError"
        /\ result.exc.type \notin {"TimeoutError", "NetworkError",
               "ServerError", "ServiceUnavailableError", "RateLimitError"}
        /\ wait = NoWait
        /\ nwaits = Len(log) - 1
        /\ attempts = Len(log)

C9_Witness ==
    /\ pc = "done"
    /\ Len(log) = 2
    /\ config.max_retries >= 2
    /\ LastAttempt.status = 200
    /\ response.body = "text"
    /\ result.exc.type = "JSONDecodeError"
    /\ nwaits = 1

\* C10 (as claimed): the error raised for a response is a function of its
\* status alone: 400 Validation, 401 Authentication, 403 Authorization,
\* 404 NotFound, 429 RateLimit, 503 ServiceUnavailable, other 5xx Server,
\* any other status >= 400 a generic RencomError carrying the status and
\* message; of these only 5xx, and 429 under auto-retry, are retried.
C10_TypedErrorOf(status) ==
    CASE status = 400 -> "ValidationError"
      [] status = 401 -> "AuthenticationError"
      [] status = 403 -> "AuthorizationError"
      [] status = 404 -> "NotFoundError"
      [] status = 429 -> "RateLimitError"
      [] status = 503 -> "ServiceUnavailableError"
      [] status >= 500 -> "ServerError"
      [] OTHER -> "RencomError"

C10_StatusMapping ==
    (Len(log) > 0 /\ LastAttempt.t = "response" /\ LastAttempt.status >= 400) =>
        /\ pc = "done" =>
              /\ result.kind = "error"
              /\ result.exc.type = C10_TypedErrorOf(LastAttempt.status)
              /\ result.exc.response = Some(LastAttempt.status)
        /\ pc \in {"wait", "send"} =>
              \/ LastAttempt.status >= 500
              \/ LastAttempt.status = 429 /\ config.auto_retry_rate_limits

\* ------------------------------------------------------------------------
\* Properties of the request headers
\* ------------------------------------------------------------------------
AuthNames == {"X-Admin-Key", "Authorization", "X-API-Key"}

AuthHeadersOf(h) == AuthNames \cap DOMAIN h

HasHeader(h, n, v) == n \in DOMAIN h /\ h[n] = v

HeadersBuilt == pc \in {"send", "wait", "done"}

\* C11: without extra headers, the headers built for a request hold the
\* auth header of the highest-precedence credential that is set (admin key,
\* then JWT, then API key) and no other auth header; exactly one auth header
\* when some credential is set, none when none is.
C11_AuthPrecedence ==
    (HeadersBuilt /\ extra_headers = NoExtras) =>
        LET auth == AuthHeadersOf(request_headers)
        IN  IF TruthyStr(admin_key)
            THEN /\ auth = {"X-Admin-Key"}
                 /\ request_headers["X-Admin-Key"] = admin_key
            ELSE IF TruthyStr(jwt_token)
            THEN /\ auth = {"Authorization"}
                 /\ request_headers["Authorization"] = "Bearer " \o jwt_token
            ELSE IF TruthyStr(api_key)
            THEN /\ auth = {"X-API-Key"}
                 /\ request_headers["X-API-Key"] = api_key
            ELSE auth = {}

C11_Witness ==
    /\ HeadersBuilt
    /\ extra_headers = NoExtras
    /\ admin_key = "ad" /\ jwt_token = "jt" /\ api_key = "ak"
    /\ DOMAIN request_headers = {"Content-Type", "X-Admin-Key"}

\* C12 (as claimed): every transport attempt carries
\* Content-Type: application/json and exactly one of X-Admin-Key,
\* Authorization, X-API-Key, whatever the credentials and the extra headers.
C12_Original ==
    \A i \in 1..Len(sent_headers) :
        /\ HasHeader(sent_headers[i], "Content-Type", "application/json")
        /\ Cardinality(AuthHeadersOf(sent_headers[i])) = 1

\* C12 (amended): every transport attempt of a request carries the header
\* map built once for that request, in which the caller's extra headers win;
\* when the extras do not name Content-Type it is application/json, and
\* when they name no auth header there is exactly one auth header if some
\* credential is non-empty and none otherwise.
C12_AttemptHeaders ==
    \A i \in 1..Len(sent_headers) :
        LET h == sent_headers[i]
            x == extra_headers.map
            set == TruthyStr(admin_key) \/ TruthyStr(jwt_token)
                   \/ TruthyStr(api_key)
        IN  /\ h = request_headers
            /\ \A n \in DOMAIN x : HasHeader(h, n, x[n])
            /\ "Content-Type" \notin DOMAIN x =>
                   HasHeader(h, "Content-Type", "application/json")
            /\ AuthHeadersOf(x) = {} =>
                   Cardinality(AuthHeadersOf(h)) = IF set THEN 1 ELSE 0

C12_Witness ==
    /\ Len(sent_headers) = 2
    /\ jwt_token = "jt" /\ admin_key = PyNone
    /\ "Content-Type" \in DOMAIN extra_headers.map
    /\ HasHeader(sent_headers[2], "Content-Type", "text/plain")
    /\ HasHeader(sent_headers[2], "Authorization", "Bearer jt")

\* C13 (as claimed): constructing AsyncRencomClient without a credential
\* fails, so every attempt of a client it constructed carries an auth
\* header.
C13_NoRequestWithoutAuth ==
    ctor.via = "AsyncRencomClient" =>
        /\ (ctor.api_key = PyNone /\ ctor.jwt_token = PyNone
                /\ ctor.env = PyNone) => pc = "failed"
        /\ \A i \in 1..Len(sent_headers) :
               AuthHeadersOf(sent_headers[i]) # {}

\* ------------------------------------------------------------------------
\* Properties of cancellation
\* ------------------------------------------------------------------------
\* C20: once request() was cancelled during a transport send or a wait, it
\* has ended by raising CancelledError, and it makes no further transport
\* attempt and starts no further wait.
C20_CancellationPropagates ==
    cancelled.at # "none" =>
        /\ pc = "done"
        /\ result.kind = "error"
        /\ result.exc.type = "CancelledError"
        /\ wait = NoWait
        /\ attempts = cancelled.attempts
        /\ nwaits = cancelled.nwaits

C20_Witness ==
    /\ cancelled.at = "send"
    /\ attempts = 2
    /\ attempt < max_retries
    /\ pc = "done"

\* ------------------------------------------------------------------------
\* Properties of the backoff schedule
\* ------------------------------------------------------------------------
\* The attempt index of the latest call of _wait_with_backoff
C14_K == bo_attempt - 1

\* min(2^k, 60) seconds
C14_Nominal(k) == IF Pow2(k) < 60 THEN Pow2(k) ELSE 60

\* C14: the wait passed to sleep for attempt k lies between 0.75 and 1.25
\* times min(2^k, 60) seconds and is not negative; the delay before jitter
\* is min(2^k, 60) seconds, so it never decreases from one attempt to the
\* next and stays at 60 s once 2^k >= 60.
C14_BackoffRange ==
    bo_sleep # NotCalled =>
        /\ bo_sleep >= 0
        /\ 1000 * bo_sleep >= 750 * 1000 * C14_Nominal(C14_K)
        /\ 1000 * bo_sleep <= 1250 * 1000 * C14_Nominal(C14_K)
        /\ bo_delay = 1000 * C14_Nominal(C14_K)
        /\ bo_prev # NotCalled => bo_prev <= bo_delay
        /\ Pow2(C14_K) >= 60 => bo_delay = 60000

C14_Witness ==
    /\ C14_K = 7
    /\ bo_prev = 60000
    /\ bo_delay = 60000
    /\ bo_sleep = 75000

\* ------------------------------------------------------------------------
\* Properties of search_iter
\* ------------------------------------------------------------------------
RECURSIVE ItemsOfFirst(_)
\* The items of the first n pages, in page order and in-page order
ItemsOfFirst(n) ==
    IF n <= 0 THEN <<>> ELSE ItemsOfFirst(n - 1) \o it_pages[n].items

AllItems == ItemsOfFirst(Len(it_pages))

\* C15: the items yielded are always the first items of the pages in page
\* order and in-page order, each once; no more search calls are made than
\* there are pages; when the iteration ends every item has been yielded and
\* exactly one call per page was made.
C15_EveryItemOnceInOrder ==
    /\ Len(it_yielded) <= Len(AllItems)
    /\ it_yielded = SubSeq(AllItems, 1, Len(it_yielded))
    /\ Len(it_calls) <= Len(it_pages)
    /\ it_pc = "finished" =>
           /\ it_yielded = AllItems
           /\ Len(it_calls) = Len(it_pages)

C15_Witness ==
    /\ it_pc = "finished"
    /\ Len(it_pages) = 3
    /\ Len(it_pages[2].items) = 0
    /\ Len(it_yielded) = 4

\* C16: the search call for a page is made only after the consumer has
\* taken every item of the earlier pages and asked for one more; a consumer
\* that stops after an item of some page leaves exactly the calls for the
\* pages up to that one, also when that page has has_more set.
C16_Lazy ==
    /\ Len(it_calls) >= 1 =>
           /\ Len(it_yielded) >= Len(ItemsOfFirst(Len(it_calls) - 1))
           /\ it_asks >= Len(ItemsOfFirst(Len(it_calls) - 1)) + 1
    /\ it_pc \in {"yielded", "closed"} /\ Len(it_yielded) > 0 =>
           /\ Len(it_calls) <= Len(it_pages)
           /\ Len(ItemsOfFirst(Len(it_calls) - 1)) < Len(it_yielded)
           /\ Len(it_yielded) <= Len(ItemsOfFirst(Len(it_calls)))

C16_Witness ==
    /\ it_pc = "closed"
    /\ Len(it_calls) = 1
    /\ it_pages[1].has_more
    /\ Len(it_yielded) = 2
    /\ Len(it_pages[1].items) = 2

\* ------------------------------------------------------------------------
\* Properties of the query parameters
\* ------------------------------------------------------------------------
\* The parameter name of each optional filter, by argument name
C17_OptionalFilters ==
    IF pm_client = "products"
    THEN {"price_min", "price_max", "category", "categories", "brand",
          "condition", "merchant_domains", "session_id"}
    ELSE {"capabilities", "industry", "region", "has_catalog", "session_id"}

C17_EmptyValue(x) ==
    x.t = "none" \/ (x.t = "str" /\ x.v = "") \/ (x.t = "list" /\ x.v = "[]")

\* An optional filter is a key only if the caller passed a value for it,
\* with that value, and a filter left as None is never a key
C17_FiltersOnlyWhenPassed ==
    \A k \in C17_OptionalFilters :
        /\ pm_args[k].t = "none" => k \notin DOMAIN pm_params
        /\ k \in DOMAIN pm_params =>
               /\ pm_args[k].t # "none"
               /\ pm_params[k] = pm_args[k]

\* C17 (as claimed): in the params map search() hands to the executor, an
\* optional filter is a key only if the caller passed a value for it, a
\* filter left as None is never a key, and no key at all is sent with a
\* None, empty-string or empty-list value.
C17_Original ==
    pm_pc = "sent" /\ pm_client # "none" =>
        /\ C17_FiltersOnlyWhenPassed
        /\ \A k \in DOMAIN pm_params : ~C17_EmptyValue(pm_params[k])

\* C17: in the params map search() hands to the executor, an optional
\* filter is a key only if the caller passed a value for it, with that
\* value; a filter left as None is never a key, and no optional filter is
\* sent with a None, empty-string or empty-list value. The required query
\* of ProductClient.search is always sent as q with the value given, the
\* empty string included.
C17_OmittedFiltersAbsent ==
    pm_pc = "sent" /\ pm_client # "none" =>
        /\ C17_FiltersOnlyWhenPassed
        /\ \A k \in C17_OptionalFilters :
               k \in DOMAIN pm_params => ~C17_EmptyValue(pm_params[k])
        /\ pm_client = "products" =>
               /\ "q" \in DOMAIN pm_params
               /\ pm_params["q"] = pm_args.query

C17_Witness ==
    /\ pm_pc = "sent"
    /\ pm_client = "products"
    /\ pm_args.price_min = IntVal("0")
    /\ pm_args.category = StrVal("")
    /\ pm_args.brand = NoneVal
    /\ pm_args.categories = ListVal("[a]")
    /\ pm_args.query = StrVal("")
    /\ pm_params["q"] = StrVal("")
    /\ DOMAIN pm_params =
           {"q", "limit", "offset", "price_min", "categories"}

\* ------------------------------------------------------------------------
\* Properties of the synchronous facade
\* ------------------------------------------------------------------------
\* C18 (as claimed): a facade method called while the loop it would use is
\* running ends with the clear RuntimeError, having issued no request and
\* created or installed no event loop, on the given-loop path and on the
\* fallback path.
C18_ReentrantRejected ==
    fc_call.reentrant =>
        /\ fc_call.outcome = ClearError
        /\ ~fc_call.requested
        /\ fc_call.created = 0
        /\ ~fc_call.installed

\* C19 (as claimed): once close() has returned, the HTTP client is closed
\* and the event loop stored at construction is closed.
C19_CloseTearsDown ==
    fc_close = "returned" =>
        /\ fc_http = "closed"
        /\ fc_loop \in fc_closed

\* ------------------------------------------------------------------------
\* Properties of the errors raised for a response
\* ------------------------------------------------------------------------
LastIsStatus(st) ==
    Len(log) > 0 /\ LastAttempt.t = "response" /\ LastAttempt.status = st

\* C23 (as claimed): what request() does after a 429 response with an
\* integer or absent Retry-After header is settled by the retry policy and
\* the attempt number alone, whatever the X-RateLimit-* headers hold: it
\* goes on to a wait and a further attempt when auto-retry is on and
\* retries remain, and raises a RateLimit error otherwise.
C23_RateLimitHeadersIgnored ==
    (LastIsStatus(429) /\ response.retry_after.tag \in {"int", "absent"}) =>
        IF config.auto_retry_rate_limits /\ Len(log) <= config.max_retries
        THEN /\ pc \in {"wait", "send"}
             /\ result.kind = "none"
        ELSE /\ pc = "done"
             /\ result.kind = "error"
             /\ result.exc.type = "RateLimitError"

\* C24: a 400 response raises a ValidationError; its message is the
\* body's detail when the body has one; its errors are the body's errors
\* list when the body has one and the empty list otherwise, never None.
C24_ValidationError ==
    LastIsStatus(400) =>
        /\ pc = "done"
        /\ result.kind = "error"
        /\ result.exc.type = "ValidationError"
        /\ response.body \in {"obj_detail_errors", "obj_detail"} =>
               result.exc.message = "detail"
        /\ result.exc.errors =
               IF response.body = "obj_detail_errors" THEN "list"
               ELSE "empty_list"

C24_Witness ==
    /\ LastIsStatus(400)
    /\ response.body = "text"
    /\ result.exc.type = "ValidationError"
    /\ result.exc.errors = "empty_list"
    /\ attempts = 2

C25_Field(h) == IF h.tag = "int" THEN Some(h.val) ELSE NoneV

\* C25 (as claimed): a 429 response that ends request() raises a
\* RateLimitError whose retry_after is the integer Retry-After value, 60
\* when the header is absent, and whose limit, remaining and reset_at are
\* each the integer value of their header, unset when it is absent.
C25_RateLimitFields ==
    (LastIsStatus(429) /\ pc = "done") =>
        /\ result.kind = "error"
        /\ result.exc.type = "RateLimitError"
        /\ response.retry_after.tag = "int" =>
               result.exc.retry_after = Some(response.retry_after.val)
        /\ response.retry_after.tag = "absent" =>
               result.exc.retry_after = Some(60)
        /\ response.limit.tag \in {"int", "absent"} =>
               result.exc.limit = C25_Field(response.limit)
        /\ response.remaining.tag \in {"int", "absent"} =>
               result.exc.remaining = C25_Field(response.remaining)
        /\ response.reset.tag \in {"int", "absent"} =>
               result.exc.reset_at = C25_Field(response.reset)

\* C26 (as claimed): every error request() raises is a RencomError; the
\* error for a 503 is also a ServerError and the error for a timeout is also
\* a NetworkError; a 503 is retried while retries remain, like any 5xx.
C26_ClosedTaxonomy ==
    /\ (pc = "done" /\ result.kind = "error") =>
           /\ IsInstance(result.exc.type, "RencomError")
           /\ LastIsStatus(503) => IsInstance(result.exc.type, "ServerError")
           /\ (Len(log) > 0 /\ LastAttempt.t = "timeout") =>
                  IsInstance(result.exc.type, "NetworkError")
    /\ (LastIsStatus(503) /\ Len(log) <= config.max_retries) =>
           pc \in {"wait", "send"}

\* ------------------------------------------------------------------------
\* Properties of the attempt-wait loop
\* ------------------------------------------------------------------------
\* Every attempt has completed before the next wait or attempt starts, a
\* wait is pending or over only after an attempt and is followed by an
\* attempt, and a finished request made at least one attempt and one wait
\* less than attempts
C27_Alternate ==
    /\ attempts = Len(log)
    /\ pc = "idle" => attempts = 0 /\ nwaits = 0
    /\ pc = "send" => nwaits = attempts /\ wait = NoWait
    /\ pc = "wait" => attempts >= 1 /\ nwaits = attempts /\ wait # NoWait
    /\ pc = "done" =>
           attempts >= 1 /\ nwaits = attempts - 1 /\ wait = NoWait

\* C27 (as claimed): on every client, one request starts and ends with an
\* attempt, its attempts and waits alternate, and it makes one wait less
\* than attempts.
C27_Original == C27_Alternate

\* C27: in one request on a client with max_retries >= 0 attempts and
\* waits alternate, starting and ending with an attempt, with one wait
\* less than attempts; on a client with a negative max_retries a request
\* makes no attempt and no wait.
C27_AttemptsAndWaitsAlternate ==
    /\ config.max_retries >= 0 => C27_Alternate
    /\ config.max_retries < 0 =>
           attempts = 0 /\ nwaits = 0 /\ wait = NoWait /\ log = <<>>

C27_Witness ==
    /\ pc = "done"
    /\ result.kind = "error"
    /\ attempts = 3
    /\ nwaits = 2
    /\ log[1].t = "timeout" /\ log[2].status = 503 /\ log[3].status = 401

\* ------------------------------------------------------------------------
\* Properties of the header merge and of the client's fields
\* ------------------------------------------------------------------------
\* The header map before the caller's extra headers are merged in
C30_Built ==
    LET ct == Put(EmptyMap, "Content-Type", "application/json")
    IN  IF TruthyStr(admin_key) THEN Put(ct, "X-Admin-Key", admin_key)
        ELSE IF TruthyStr(jwt_token)
        THEN Put(ct, "Authorization", "Bearer " \o jwt_token)
        ELSE IF TruthyStr(api_key) THEN Put(ct, "X-API-Key", api_key)
        ELSE ct

\* C30: the headers built for a request hold every extra header with the
\* caller's value, also where the name is Content-Type or an auth header;
\* every other header is the Content-Type or auth header built from the
\* credentials, with its built value; the caller's mapping is still one of
\* the mappings callers pass.
C30_ExtrasMergedLast ==
    HeadersBuilt =>
        LET x == extra_headers.map
        IN  /\ DOMAIN request_headers = DOMAIN C30_Built \cup DOMAIN x
            /\ \A n \in DOMAIN x : request_headers[n] = x[n]
            /\ \A n \in DOMAIN C30_Built \ DOMAIN x :
                   request_headers[n] = C30_Built[n]
            /\ extra_headers \in ExtraChoices

C30_Witness ==
    /\ pc = "done"
    /\ api_key = "ak" /\ jwt_token = PyNone /\ admin_key = PyNone
    /\ HasHeader(extra_headers.map, "X-API-Key", "other")
    /\ HasHeader(request_headers, "X-API-Key", "other")
    /\ HasHeader(request_headers, "Content-Type", "application/json")
    /\ Len(sent_headers) = 1

\* C22: at every point of every sequence of requests, returned, raised or
\* retried, the client's credentials, retry policy, base URL and timeout
\* are the values the constructor set from its arguments.
C22_ClientFieldsFixed ==
    pc # "failed" =>
        /\ api_key = ResolvedApiKey(ctor)
        /\ jwt_token = ctor.jwt_token
        /\ admin_key = ctor.admin_key
        /\ max_retries = config.max_retries
        /\ auto_retry_rate_limits = config.auto_retry_rate_limits
        /\ base_url.stem = endpoint.base_url.stem /\ base_url.slashes = 0
        /\ timeout = endpoint.timeout

C22_Witness ==
    /\ pc = "done"
    /\ result.kind = "error"
    /\ attempts = 2
    /\ log[1].t = "timeout" /\ log[2].status = 500
    /\ endpoint # DefaultEndpoint
    /\ "X-Request-ID" \in DOMAIN extra_headers.map
    /\ admin_key = "ad"

\* ------------------------------------------------------------------------
\* Properties of one request after another
\* ------------------------------------------------------------------------
\* C29: a request made after an earlier one on the same client, however
\* that one ended, starts with attempt 0, no attempts, no waits and no
\* remembered exception; its attempt number counts its own attempts only;
\* its first backoff wait is the attempt-0 delay; and it ends on a retryable
\* failure only after max_retries + 1 attempts of its own.
C29_FreshRetryState ==
    (earlier.kind # "none" /\ config.max_retries >= 0) =>
        /\ (pc = "send" /\ attempts = 0) =>
               /\ attempt = 0
               /\ nwaits = 0
               /\ log = <<>>
               /\ last_exception = NoExc
        /\ pc = "send" => attempt = attempts
        /\ pc \in {"wait", "done"} => attempt = attempts - 1
        /\ (pc = "wait" /\ nwaits = 1) =>
               /\ wait.src = "backoff"
               /\ wait.k = 0
               /\ 4 * wait.ms >= 3 * BaseDelayMs
               /\ 4 * wait.ms <= 5 * BaseDelayMs
        /\ (pc = "done" /\ IsRetryableFailure(LastAttempt)) =>
               attempts = config.max_retries + 1

C29_Witness ==
    /\ config.max_retries = 2
    /\ earlier = [kind |-> "error", attempts |-> 3, nwaits |-> 2]
    /\ pc = "done"
    /\ attempts = 3
    /\ nwaits = 2
    /\ log[1].t = "timeout" /\ log[2].status = 503
    /\ result.kind = "value"

\* ------------------------------------------------------------------------
\* Termination
\* ------------------------------------------------------------------------
\* C28: when every attempt is eventually answered and every wait
\* eventually ends, a request that is awaiting an attempt or a wait
\* eventually returns or raises, for every max_retries and every sequence
\* of outcomes.
C28_RequestTerminates == (pc \in {"send", "wait"}) ~> (pc = "done")

C28_Witness ==
    /\ pc = "done"
    /\ config.auto_retry_rate_limits
    /\ config.max_retries = MaxRetriesBound
    /\ attempts = MaxRetriesBound + 1
    /\ nwaits = MaxRetriesBound
    /\ \A i \in 1..Len(log) :
           log[i].t = "response" /\ log[i].status \in {429, 500, 503}
    /\ \E i \in 1..Len(log) : log[i].status = 429
    /\ result.kind = "error"

\* ------------------------------------------------------------------------
\* Properties of concurrent requests
\* ------------------------------------------------------------------------
\* What a call whose frame is f has come to, read from its own attempts
C21_Own(f) ==
    LET n == Len(f.log)
        last == f.log[n]
    IN  /\ f.attempts = n
        /\ f.attempts <= config.max_retries + 1
        /\ Len(f.sent_headers) = n
        /\ f.pc = "send" => f.attempt = n /\ f.nwaits = n
        /\ f.pc = "wait" => f.attempt = n - 1 /\ f.nwaits = n
                              /\ f.wait.k = n - 1
        /\ f.pc = "done" => f.attempt = n - 1 /\ f.nwaits = n - 1
        /\ (n = 0) => f.pc \in {"idle", "send"} /\ f.result = NoResult
        /\ (n > 0 /\ IsRetryableFailure(last)) =>
               IF n <= config.max_retries
               THEN f.pc \in {"wait", "send"} /\ f.result = NoResult
               ELSE /\ f.pc = "done"
                    /\ f.result.kind = "error"
                    /\ f.result.exc.type = C3_TypedErrorOf(last)
        /\ (n > 0 /\ last.t = "response" /\ last.status = 200) =>
               f.pc = "done" /\ f.result = Returned(f.response.body)
        /\ (n > 0 /\ last.t = "response" /\ last.status = 404) =>
               /\ f.pc = "done"
               /\ f.result.kind = "error"
               /\ f.result.exc.type = "NotFoundError"

\* C21: of two request() calls interleaved at their awaits on one client,
\* each makes at most max_retries + 1 attempts of its own, counts its own
\* attempts and waits, and is still retrying, has returned, or has raised
\* as its own attempts alone settle, whatever the other call met.
C21_CallsOwnRetryState ==
    config.max_retries >= 0 => C21_Own(Frame) /\ C21_Own(parked)

C21_Witness ==
    /\ config.max_retries = 2
    /\ pc = "done"
    /\ result.kind = "value"
    /\ attempts = 1
    /\ parked.pc = "wait"
    /\ parked.attempts = 2
    /\ parked.nwaits = 2
    /\ parked.log[1].status = 503 /\ parked.log[2].t = "timeout"

\* ------------------------------------------------------------------------
\* Properties of the error message and of the shared attempt counter
\* ------------------------------------------------------------------------
C31_Chain(resp) ==
    IF resp.body \in {"obj_detail_errors", "obj_detail"} THEN "detail"
    ELSE IF resp.body # "empty" THEN "text"
    ELSE "HTTP " \o StatusText(resp.status)

\* C31 (as claimed): the error raised for a failed response carries the
\* body's detail when the body is a JSON object that has one, else the raw
\* response text, else, the text being empty, "HTTP <status>".
C31_MessageFallbackChain ==
    (LastIsStatus(response.status) /\ response.status >= 400
        /\ pc = "done") =>
        /\ result.kind = "error"
        /\ result.exc.message = C31_Chain(response)

C32_Nominal(k) == IF Pow2(k) < 60 THEN 1000 * Pow2(k) ELSE 60000

\* C32: a backoff wait started after the attempt numbered k, counted from
\* 0 over all attempts of the request, is within a quarter of
\* min(2^k, 60) seconds, also when earlier waits of the request used
\* Retry-After; and every wait, of either kind, is followed by the attempt
\* with the next number, so both kinds spend the one budget of
\* max_retries + 1 attempts.
C32_SharedAttemptCounter ==
    config.max_retries >= 0 =>
        /\ attempts <= config.max_retries + 1
        /\ pc = "wait" =>
               /\ attempt = Len(log) - 1
               /\ wait.k = attempt
               /\ Len(log) <= config.max_retries
               /\ wait.src = "backoff" =>
                      /\ 4 * wait.ms >= 3 * C32_Nominal(Len(log) - 1)
                      /\ 4 * wait.ms <= 5 * C32_Nominal(Len(log) - 1)
        /\ \A i \in 1..Len(log) :
               (i < Len(log) \/ pc \in {"wait", "send"}) <=>
                   log[i].then # "none"

C32_Witness ==
    /\ pc = "wait"
    /\ wait.src = "backoff"
    /\ wait.k = 1
    /\ wait.ms > 1250
    /\ log[1].status = 429 /\ log[1].then = "retry_after"
    /\ log[2].status = 503 /\ log[2].then = "backoff"

\* ------------------------------------------------------------------------
\* Properties of what the attempts send
\* ------------------------------------------------------------------------
\* C33: every attempt of a request hands the transport the method, path,
\* query parameters and body the caller passed and the header map built
\* before the first attempt, so all attempts of one request send the same,
\* whatever failed in between.
C33_AttemptsSendTheSame ==
    /\ Len(sent) = Len(log)
    /\ \A i \in 1..Len(sent) :
           /\ sent[i] = sent[1]
           /\ sent[i].method = args.method
           /\ sent[i].url = args.path
           /\ sent[i].params = args.params
           /\ sent[i].json = args.json
           /\ sent[i].headers = request_headers
           /\ sent[i].headers =
                  BuildHeaders(admin_key, jwt_token, api_key, extra_headers)

C33_Witness ==
    /\ Len(sent) = 3
    /\ log[1].t = "timeout" /\ log[2].status = 503 /\ log[3].status = 200
    /\ args.method = "POST"
    /\ sent[3].json = "{name: t}"
    /\ HasHeader(sent[3].headers, "X-Request-ID", "r1")
    /\ sent[3] = sent[1]

\* C34: with max_retries < 0 a request makes no attempt and no wait and
\* raises the generic RencomError; with max_retries >= 0 a request ends
\* only in the attempt that returned or raised, never in the statements
\* after the loop, and never with the generic error.
C34_GenericFailureOnlyWithoutAttempts ==
    pc = "done" =>
        IF config.max_retries < 0
        THEN /\ attempts = 0
             /\ nwaits = 0
             /\ sent = <<>>
             /\ result = Raised(GenericFailure)
             /\ result.exc.type = "RencomError"
        ELSE /\ attempts >= 1
             /\ LastAttempt.then = "none"
             /\ nwaits = attempts - 1
             /\ result # Raised(GenericFailure)
             /\ result.kind = "error" =>
                    result.exc.message #
                        "Request failed after all retry attempts"

C34_Witness ==
    /\ config.max_retries = -1
    /\ pc = "done"
    /\ attempts = 0
    /\ result.kind = "error"
    /\ result.exc.message = "Request failed after all retry attempts"

\* ------------------------------------------------------------------------
\* Properties of the page requests of search_iter
\* ------------------------------------------------------------------------
\* C35: the k-th search call of an iteration, counted from 0, has offset
\* k * limit and the query, sort order and limit the caller passed, whatever
\* the earlier pages held; this is so in every iteration, so a new call of
\* search_iter starts at offset 0 again.
C35_OffsetsAreMultiplesOfLimit ==
    \A k \in 1..Len(it_calls) :
        /\ it_calls[k].offset = (k - 1) * it_limit
        /\ it_calls[k].limit = it_limit
        /\ it_calls[k].query = IterQuery
        /\ it_calls[k].sort_by = IterSortBy

C35_Witness ==
    /\ it_run = 2
    /\ it_limit = 2
    /\ Len(it_calls) = 3
    /\ Len(it_pages[1].items) = 1
    /\ Len(it_pages[2].items) = 0
    /\ it_calls[1].offset = 0
    /\ it_calls[3].offset = 4

\* C36: when a search call of the generator raised, the consumer's
\* pending request for an item raised that same error; it was the
\* request for the first item of that page, every item of the earlier
\* pages having been yielded once and in order; and the failed call is
\* the last call the generator makes.
C36_PageErrorPropagates ==
    it_failed.call # 0 =>
        /\ it_pc \in {"raised", "stopped"}
        /\ it_raised = it_failed.error
        /\ Len(it_calls) = it_failed.call
        /\ it_yielded = ItemsOfFirst(it_failed.call - 1)
        /\ it_asks = Len(it_yielded) + (IF it_pc = "raised" THEN 1 ELSE 2)

C36_Witness ==
    /\ it_pc = "stopped"
    /\ it_failed = [call |-> 3, error |-> "ServiceUnavailableError"]
    /\ it_raised = "ServiceUnavailableError"
    /\ Len(it_yielded) = 3
    /\ Len(it_calls) = 3

\* C37: the items the sync search_iter hands out are the items the async
\* generator yields for the same pages, in the same order; the first of
\* them is handed out only after the generator has ended, every page up
\* to the first without has_more having been requested, so a consumer that
\* stops early has saved no request.
C37_SyncCollectsEverythingFirst ==
    /\ Len(it_given) <= Len(AllItems)
    /\ it_given = SubSeq(AllItems, 1, Len(it_given))
    /\ it_pc # "finished" => it_given = <<>>
    /\ it_pc = "finished" =>
           /\ it_yielded = AllItems
           /\ Len(it_calls) = Len(it_pages)
           /\ ~it_pages[Len(it_calls)].has_more

C37_Witness ==
    /\ Len(it_given) = 1
    /\ Len(it_pages) = 3
    /\ Len(it_calls) = 3
    /\ Len(AllItems) = 4
    /\ it_pages[1].has_more

\* ------------------------------------------------------------------------
\* Properties of the credentials of AsyncRencomClient
\* ------------------------------------------------------------------------
\* C38: a client made by AsyncRencomClient holds the environment value as
\* its API key only when neither api_key nor jwt_token was passed; a passed
\* api_key or jwt_token is held as passed and the environment value then
\* appears in no header; and when a non-empty api_key and a non-empty
\* jwt_token were both passed, every attempt carries Authorization: Bearer
\* <jwt_token> as its only auth header (the caller's extra headers naming
\* none).
C38_EnvironmentOnlyAsFallback ==
    (ctor.via = "AsyncRencomClient" /\ pc # "failed") =>
        LET given == ctor.api_key # PyNone \/ ctor.jwt_token # PyNone
        IN  /\ jwt_token = ctor.jwt_token
            /\ given => api_key = ctor.api_key
            /\ ~given => api_key = ctor.env
            /\ \A i \in 1..Len(sent_headers) :
                   LET h == sent_headers[i]
                   IN  /\ (given /\ ctor.env = "ek") =>
                              \A n \in DOMAIN h : h[n] # "ek"
                       /\ (TruthyStr(ctor.api_key)
                              /\ TruthyStr(ctor.jwt_token)
                              /\ AuthHeadersOf(extra_headers.map) = {}) =>
                              /\ AuthHeadersOf(h) = {"Authorization"}
                              /\ h["Authorization"] =
                                     "Bearer " \o ctor.jwt_token

C38_Witness ==
    /\ ctor = AsyncCtor("ak", "jt", "ek")
    /\ Len(sent_headers) = 2
    /\ HasHeader(sent_headers[2], "Authorization", "Bearer jt")
    /\ "X-API-Key" \notin DOMAIN sent_headers[2]

\* The headers that are there
PresentFields(h) ==
    {RateLimitFields[i].field :
        i \in {j \in 1..5 : h[RateLimitFields[j].header].tag # "absent"}}

\* C39: a parse of any headers returns a snapshot in which a field is
\* there exactly when its header is, holding the header's integer value
C39_SnapshotFromPresentHeaders ==
    rl_info.state # "none" =>
        /\ rl_info.state = "returned"
        /\ DOMAIN rl_info.info = PresentFields(rl_headers)
        /\ \A i \in 1..5 :
               rl_headers[RateLimitFields[i].header].tag = "int" =>
                   rl_info.info[RateLimitFields[i].field]
                       = rl_headers[RateLimitFields[i].header].val

\* Every header that is there is the text of an integer
AllIntegers(h) == \A n \in RateLimitHeaderNames : h[n].tag \in {"absent", "int"}

\* Headers that are all integers give the snapshot of C39, whatever the
\* parse before was given
SnapshotOfIntegerHeaders ==
    (rl_info.state # "none" /\ AllIntegers(rl_headers)) =>
        /\ rl_info.state = "returned"
        /\ DOMAIN rl_info.info = PresentFields(rl_headers)
        /\ \A i \in 1..5 :
               rl_headers[RateLimitFields[i].header].tag = "int" =>
                   rl_info.info[RateLimitFields[i].field]
                       = rl_headers[RateLimitFields[i].header].val

\* A parse of fewer headers after a parse of more
SnapshotAfterLarger ==
    /\ rl_info.state = "returned"
    /\ PresentFields(rl_prev) = {RateLimitFields[i].field : i \in 1..5}
    /\ AllIntegers(rl_prev)
    /\ rl_headers["X-RateLimit-Limit-Minute"] = IntText(0)
    /\ DOMAIN rl_info.info = {"limit_minute"}

====
